---- MODULE Spec2Model ----
(***************************************************************************)
(* A model of the wildfire debris-flow automation tool:                    *)
(*   - the batch assessment driver (src/src/wildcat_automation.py),        *)
(*   - the remote asset uploader and DEM downloader                        *)
(*     (src/src/data_acquisition/asset_uploader.py, gee_downloader.py),    *)
(*   - the archive extractor (src/src/data_acquisition/mtbs_extractor.py), *)
(*   - the folder inventory, the data validator and the data clipper       *)
(*     (src/src/preprocessing/folder_organizer.py, data_validator.py,      *)
(*     data_clipper.py).                                                   *)
(*   - project initialisation and batch_process                            *)
(*     (src/src/wildcat_automation.py),                                    *)
(*   - the hazard classification                                           *)
(*     (src/src/visualization/raster_generator.py).                        *)
(* Each subsystem has its own variables and its own specification; the     *)
(* variables of the other subsystems stay at their idle values.            *)
(* Text (fire names, dates, folder names, asset ids) is a sequence of      *)
(* one-character strings.                                                  *)
(***************************************************************************)
EXTENDS Integers, Sequences, FiniteSets, TLC

(***************************************************************************)
(* Bounds of the model.                                                    *)
(***************************************************************************)
\* number of initialized projects handed to run_batch_assessment
NumFires == 2
\* largest fire_size_mb of a project record
MaxSizeMb == 2
\* number of run_batch_assessment calls in one behaviour
MaxRuns == 2
\* largest number of fires in an inventory given to the upload/download batches
MaxInventory == 2
\* largest max_parallel given to the pools
MaxWorkers == 2
\* longest fire name whose asset id is constructed
MaxNameLen == 3
\* longest text after "Fire Name:" in an archive's metadata
MaxFireNameLen == 2
\* longest text after "Date of Fire:" in an archive's metadata
MaxDateLen == 3
\* number of extract_all_bundles calls in one behaviour
MaxExtractRuns == 2
\* largest number of entries under one fire folder
MaxFiles == 2
\* number of get_fire_inventory calls in one behaviour
MaxInventoryRuns == 2
\* largest band count of a raster
MaxBands == 2
\* largest number of pixels of a raster's first band
MaxPixels == 2
\* largest number of features of a perimeter shapefile
MaxFeatures == 2
\* cells of a probability raster
MaxCells == 2
\* lines of the config.py the external tool generates
MaxConfigLines == 3
\* initialize_single_project calls made directly
MaxInitCalls == 2
\* the largest max_fires given to batch_process
MaxFiresArg == 2
\* export tasks started by direct upload_fire_perimeter calls
MaxTasks == 2
\* sleeps' worth of time that pass between direct calls
MaxTicks == 2

(***************************************************************************)
(* Program constants.                                                      *)
(***************************************************************************)
\* time.sleep(30) in batch_download_dems
SleepSeconds == 30
\* data_min < -3000 or data_max > 3000 in validate_dnbr
DnbrLimit == 3000
\* mem_before.available / (1024**3) < 2 in run_single_assessment
LowMemoryGb == 2
\* memory_threshold_gb: float = 2.0, the default of run_batch_assessment
DefaultThresholdGb == 2

VARIABLES
    \* ---- batch assessment driver (WildcatAutomation) ----
    initialized_projects, \* fire -> project record (fire_size_mb may be absent)
    skip_existing,        \* argument of the current run_batch_assessment call
    exports_shp,          \* fire -> whether exports/ of its project holds a .shp
    pc,                   \* position of the driver
    sorted_projects,      \* the size-sorted list of fire names
    idx,                  \* loop index i of the for loop (1-based)
    results,              \* the results mapping being built
    success_count,
    memory_errors,
    other_errors,
    returned,             \* what the last call returned: "none" or the results
    calls,                \* history: external-model calls of this batch, in order
    skipped,              \* history: fires the skip-existing check skipped
    shp_at_call,          \* history: exports_shp when the batch was called
    runs,                 \* number of run_batch_assessment calls so far
    memory_threshold_gb,  \* argument of the current run_batch_assessment call
    mem_checks,           \* history: the memory samples of this batch, in order
    recorded,             \* history: fire -> whether output_files was non-empty,
                          \* for the fires earlier batches returned as successes
    \* ---- remote asset uploader / DEM downloader ----
    fire_inventory,       \* fire name -> record with has_perimeter
    asset_store,          \* asset ids the remote store held before any upload
    export_tasks,         \* export tasks started (task id = position)
    clock,                \* seconds since the start
    gpc,                  \* position of the calling thread
    max_parallel,         \* max_workers of the pools
    up_future,            \* fire name -> state of its upload future
    up_result,            \* fire name -> what upload_fire_perimeter returned
    up_env,               \* history: what the remote store answered to the fire's calls
    upload_results,       \* the results summary of batch_upload_perimeters
                          \* (its list as the set of fires appended)
    down_future,          \* fire name -> state of its download future
    down_result,          \* fire name -> what download_dem_for_fire returned
    down_env,             \* history: what the remote side answered to the download
    down_started_at,      \* history: clock when the fire's download read the asset
    download_results,     \* the results summary of batch_download_dems
    \* ---- asset identifiers, for any fire name ----
    asset_base,           \* the asset_path of the uploader and of the downloader
    asset_fire,           \* a fire name of the inventory
    written_id,           \* the asset id the upload batch wrote to (none yet: {})
    read_id,              \* the asset id the download batch read from (none yet: {})
    \* ---- archive extractor (MTBSExtractor), one year folder ----
    zip_files,            \* archive stem -> what the archive holds
    year_dir,             \* folder name -> what was extracted into the folder
    epc,                  \* position of extract_all_bundles
    all_zips,             \* the archives still to extract, in glob order
    extract_results,      \* the results summary of extract_all_bundles
    extract_log,          \* history: each extract_single_bundle call of this run
    extract_runs,         \* number of extract_all_bundles calls so far
    \* ---- folder inventory (FolderOrganizer), one year folder ----
    root_tree,            \* the entries of the year folder, in listing order,
                          \* each with what lies under it, in listing order
    ipc,                  \* position of get_fire_inventory
    fire_queue,           \* entries of the year folder still to visit
    file_queue,           \* entries under the current fire folder still to visit
    fire_data,            \* the record _check_fire_files is building
    inventory,            \* the inventory being built
    inventories,          \* history: the inventories returned so far
    tree_at_start,        \* history: the year folder before the first call
    inv_runs,             \* number of get_fire_inventory calls so far
    \* ---- data validator (DataValidator), one fire ----
    fire_paths,           \* component -> whether fire_data names a path for it
    disk,                 \* component -> the file at that path
    vpc,                  \* position of validate_fire_data
    v_results,            \* the results of validate_fire_data
    \* ---- data clipper (DataClipper), one call ----
    clip_call,            \* the function called and its buffer_distance
    dataset_file,         \* the shared dataset on disk
    perimeter_file,       \* the perimeter shapefile on disk
    cpc,                  \* position of the call
    dataset_crs,          \* the CRS of the dataset as the call holds it
    perimeter_crs,        \* the CRS of the perimeter as the call holds it
    reprojected,          \* history: what the call reprojected
    clip_output,          \* the output file written: none ({}) or one
    clip_returned,        \* what the call returned: "none", TRUE or FALSE
    \* ---- hazard classification (RasterGenerator), one call ----
    probability_raster,   \* the probability raster on disk: none ({}) or its cells
    hz_pc,                \* position of the call
    hz_data,              \* data: the cells read from band 1
    classified,           \* the classified array
    hz_level,             \* the level the threshold loop is at
    hz_output,            \* the classified raster written: none ({}) or one
    hz_returned,          \* what the call returned: "none", TRUE or FALSE
    \* ---- project initialisation and batch_process (WildcatAutomation) ----
    default_config,       \* the lines of the config.py the external tool generates
    severity_years,       \* the years y for which mtbs_CA_{y}.tif exists
    root_years,           \* year -> the entries of root_folder/year, in listing order
    project_dirs,         \* project directory -> the lines of its config.py
    ppc,                  \* position of the call
    cur_call,             \* the initialize_single_project call under way
    init_log,             \* history: the initialize_single_project calls made
    p_args,               \* the arguments of batch_process
    all_fires,            \* the (year, folder name) pairs batch_process collected
    p_idx,                \* index of the pair being processed (1-based)
    p_result,             \* the result process_single_fire is about to return
    p_results,            \* the results mapping of batch_process
    assess_log,           \* history: the run_single_assessment calls made
    p_returned            \* what batch_process returned: "none" or the mapping

batchVars == <<initialized_projects, skip_existing, exports_shp, pc,
               sorted_projects, idx, results, success_count, memory_errors,
               other_errors, returned, calls, skipped, shp_at_call, runs,
               memory_threshold_gb, mem_checks, recorded>>

geeVars == <<fire_inventory, asset_store, export_tasks, clock, gpc,
             max_parallel, up_future, up_result, up_env, upload_results,
             down_future, down_result, down_env, down_started_at,
             download_results>>

assetVars == <<asset_base, asset_fire, written_id, read_id>>

extractVars == <<zip_files, year_dir, epc, all_zips, extract_results,
                 extract_log, extract_runs>>

inventoryVars == <<root_tree, ipc, fire_queue, file_queue, fire_data, inventory,
                   inventories, tree_at_start, inv_runs>>

validateVars == <<fire_paths, disk, vpc, v_results>>

clipVars == <<clip_call, dataset_file, perimeter_file, cpc, dataset_crs,
              perimeter_crs, reprojected, clip_output, clip_returned>>

hazardVars == <<probability_raster, hz_pc, hz_data, classified, hz_level,
                hz_output, hz_returned>>

projectVars == <<default_config, severity_years, root_years, project_dirs, ppc,
                 cur_call, init_log, p_args, all_fires, p_idx, p_result,
                 p_results, assess_log, p_returned>>

vars == <<batchVars, geeVars, assetVars, extractVars, inventoryVars,
          validateVars, clipVars, hazardVars, projectVars>>

\* what the steps of one subsystem leave alone
notBatch == <<geeVars, assetVars, extractVars, inventoryVars, validateVars,
              clipVars, hazardVars, projectVars>>
notGee == <<batchVars, assetVars, extractVars, inventoryVars, validateVars,
            clipVars, hazardVars, projectVars>>
notAsset == <<batchVars, geeVars, extractVars, inventoryVars, validateVars,
              clipVars, hazardVars, projectVars>>
notExtract == <<batchVars, geeVars, assetVars, inventoryVars, validateVars,
                clipVars, hazardVars, projectVars>>
notInventory == <<batchVars, geeVars, assetVars, extractVars, validateVars,
                  clipVars, hazardVars, projectVars>>
notValidate == <<batchVars, geeVars, assetVars, extractVars, inventoryVars,
                 clipVars, hazardVars, projectVars>>
notClip == <<batchVars, geeVars, assetVars, extractVars, inventoryVars,
             validateVars, hazardVars, projectVars>>
notHazard == <<batchVars, geeVars, assetVars, extractVars, inventoryVars,
               validateVars, clipVars, projectVars>>
notProject == <<batchVars, geeVars, assetVars, extractVars, inventoryVars,
                validateVars, clipVars, hazardVars>>

(***************************************************************************)
(* Batch assessment driver: src/src/wildcat_automation.py                  *)
(***************************************************************************)
Fires == 1..NumFires

\* The input mapping in insertion order (a dict iterates in insertion order).
ProjectItems == [k \in 1..NumFires |-> k]

\* A project record: project_dir is the fire's own directory
\* (project_folder/fire_name), fire_size_mb may be absent.
ProjectRecords(f) ==
    {[project_dir |-> f]}
        \cup {[project_dir |-> f, fire_size_mb |-> s] : s \in 1..MaxSizeMb}

\* key=lambda x: x[1].get('fire_size_mb', 0)
SizeKey(f) ==
    IF "fire_size_mb" \in DOMAIN initialized_projects[f]
    THEN initialized_projects[f].fire_size_mb
    ELSE 0

\* sorted() is stable: an item goes after every item whose key is not larger.
RECURSIVE InsertBySize(_, _)
InsertBySize(f, s) ==
    IF s = <<>> THEN <<f>>
    ELSE IF SizeKey(f) < SizeKey(Head(s)) THEN <<f>> \o s
    ELSE <<Head(s)>> \o InsertBySize(f, Tail(s))

RECURSIVE SortedBySize(_)
SortedBySize(items) ==
    IF items = <<>> THEN <<>>
    ELSE InsertBySize(items[Len(items)],
                      SortedBySize(SubSeq(items, 1, Len(items) - 1)))

\* a driver that forgets the sort and keeps the mapping's order
UnsortedProjects == ProjectItems

SortedProjects == SortedBySize(ProjectItems)

\* the stages of the external model, in the order run_single_assessment calls them
StageOrder == <<"preprocess", "assess", "export_Shapefile", "export_GeoJSON">>

\* a driver that exports before it assesses
NextStageExportFirst(stage) ==
    IF stage = "preprocess" THEN "export_Shapefile"
    ELSE IF stage = "export_Shapefile" THEN "export_GeoJSON"
    ELSE IF stage = "export_GeoJSON" THEN "assess"
    ELSE "done"

\* the statement that follows a stage's call inside the try block
NextStage(stage) ==
    IF stage = "preprocess" THEN "assess"
    ELSE IF stage = "assess" THEN "export_Shapefile"
    ELSE IF stage = "export_Shapefile" THEN "export_GeoJSON"
    ELSE "done"

\* what an external-model call may do: return, or raise an exception of a type
ExceptionTypes == {"MemoryError", "ValueError"}
Outcomes == {"ok"} \cup ExceptionTypes

\* if skip_existing: exports/ exists and holds a file ending in .shp
ShouldSkip(f) == skip_existing /\ exports_shp[f]

\* except MemoryError: error = 'MemoryError'; except Exception: type(e).__name__
FailureRecord(exc, size) ==
    [success |-> FALSE,
     error |-> IF exc = "MemoryError" THEN "MemoryError" ELSE exc,
     file_size_mb |-> size]

\* a success record that lists output files whatever exports/ holds
SuccessRecordAnyFiles(files, size) ==
    [success |-> TRUE, output_files |-> TRUE, file_size_mb |-> size]

\* the success record; output_files is whether the listing of exports/ found a
\* file ending in .shp
SuccessRecord(files, size) ==
    [success |-> TRUE, output_files |-> files, file_size_mb |-> size]

\* a counter update that files every failure under other errors
CountKindOther(result) ==
    IF result.success THEN "success" ELSE "other"

\* if result['success'] / elif result.get('error') == 'MemoryError' / else
CountKind(result) ==
    IF result.success THEN "success"
    ELSE IF "error" \in DOMAIN result /\ result.error = "MemoryError" THEN "memory"
    ELSE "other"

\* results[fire_name] = result
Put(map, k, v) == [x \in DOMAIN map \cup {k} |-> IF x = k THEN v ELSE map[x]]

EmptyMap == [x \in {} |-> 0]

CurrentFire == sorted_projects[idx]

\* the values psutil may report as available memory, and the thresholds a
\* caller may pass, in GB
MemorySamplesGb == {1, 3}

MemoryThresholdsGb == {2, 4}

\* if mem_before.available / (1024**3) < 2: gc.collect()
LowMemory(available) == available < LowMemoryGb

\* the successes of the batches returned so far, each with whether its
\* output_files listed a .shp
RecordedWith(last) ==
    LET won == {f \in DOMAIN last : last[f].success} IN
    [f \in DOMAIN recorded \cup won |->
        IF f \in won THEN last[f].output_files ELSE recorded[f]]

BatchInit ==
    /\ initialized_projects \in
         {p \in [Fires -> UNION {ProjectRecords(f) : f \in Fires}] :
            \A f \in Fires : p[f].project_dir = f}
    /\ exports_shp \in [Fires -> BOOLEAN]
    /\ skip_existing = TRUE
    /\ pc = "idle"
    /\ sorted_projects = <<>>
    /\ idx = 1
    /\ results = EmptyMap
    /\ success_count = 0
    /\ memory_errors = 0
    /\ other_errors = 0
    /\ returned = "none"
    /\ calls = <<>>
    /\ skipped = {}
    /\ shp_at_call = exports_shp
    /\ runs = 0
    /\ memory_threshold_gb = DefaultThresholdGb
    /\ mem_checks = <<>>
    /\ recorded = EmptyMap

\* run_batch_assessment is called: sort, reset the locals, enter the loop
RunBatchAssessment ==
    /\ pc \in {"idle", "returned", "raised"}
    /\ runs < MaxRuns
    /\ \E s \in BOOLEAN : skip_existing' = s
    /\ sorted_projects' = SortedProjects
    /\ results' = EmptyMap
    /\ success_count' = 0
    /\ memory_errors' = 0
    /\ other_errors' = 0
    /\ idx' = 1
    /\ pc' = "loop"
    /\ returned' = "none"
    /\ calls' = <<>>
    /\ skipped' = {}
    /\ shp_at_call' = exports_shp
    /\ runs' = runs + 1
    /\ \E t \in MemoryThresholdsGb : memory_threshold_gb' = t
    /\ mem_checks' = <<>>
    /\ recorded' = RecordedWith(IF pc = "returned" THEN returned ELSE EmptyMap)
    /\ UNCHANGED <<initialized_projects, exports_shp>>
    /\ UNCHANGED notBatch

\* the skip-existing check succeeds: continue with the next fire
SkipFire ==
    /\ pc = "loop"
    /\ idx <= Len(sorted_projects)
    /\ ShouldSkip(CurrentFire)
    /\ skipped' = skipped \cup {CurrentFire}
    /\ idx' = idx + 1
    /\ UNCHANGED <<initialized_projects, skip_existing, exports_shp, pc,
                   sorted_projects, results, success_count, memory_errors,
                   other_errors, returned, calls, shp_at_call, runs>>
    /\ UNCHANGED <<memory_threshold_gb, mem_checks, recorded>>
    /\ UNCHANGED notBatch

\* run_single_assessment is entered: project_info['fire_size_mb'] is read before
\* the try block, so a record without it raises KeyError out of the batch; then
\* the available memory is sampled and gc.collect() is called when it is low
BeginAssessment ==
    /\ pc = "loop"
    /\ idx <= Len(sorted_projects)
    /\ ~ShouldSkip(CurrentFire)
    /\ \/ /\ "fire_size_mb" \in DOMAIN initialized_projects[CurrentFire]
          /\ \E available \in MemorySamplesGb :
                mem_checks' = Append(mem_checks,
                                     [fire |-> CurrentFire, available |-> available,
                                      collected |-> LowMemory(available)])
          /\ pc' = "preprocess"
       \/ /\ "fire_size_mb" \notin DOMAIN initialized_projects[CurrentFire]
          /\ pc' = "raised"
          /\ UNCHANGED mem_checks
    /\ UNCHANGED <<initialized_projects, skip_existing, exports_shp,
                   sorted_projects, idx, results, success_count, memory_errors,
                   other_errors, returned, calls, skipped, shp_at_call, runs>>
    /\ UNCHANGED <<memory_threshold_gb, recorded>>
    /\ UNCHANGED notBatch

\* back in the loop of run_batch_assessment: store the result, count it, go on
RecordResult(result) ==
    /\ results' = Put(results, CurrentFire, result)
    /\ success_count' = success_count + (IF CountKind(result) = "success" THEN 1 ELSE 0)
    /\ memory_errors' = memory_errors + (IF CountKind(result) = "memory" THEN 1 ELSE 0)
    /\ other_errors' = other_errors + (IF CountKind(result) = "other" THEN 1 ELSE 0)
    /\ idx' = idx + 1
    /\ pc' = "loop"

Logged(stage, out) ==
    Append(calls, [fire |-> CurrentFire, stage |-> stage, outcome |-> out])

\* self.wildcat.preprocess(project_dir), or self.wildcat.assess(project_dir)
StageCall(stage) ==
    /\ pc = stage
    /\ \E out \in Outcomes :
         /\ calls' = Logged(stage, out)
         /\ IF out = "ok"
            THEN /\ pc' = NextStage(stage)
                 /\ UNCHANGED <<idx, results, success_count, memory_errors,
                                other_errors>>
            ELSE RecordResult(FailureRecord(out,
                                  initialized_projects[CurrentFire].fire_size_mb))
    /\ UNCHANGED <<initialized_projects, skip_existing, exports_shp,
                   sorted_projects, returned, skipped, shp_at_call, runs>>
    /\ UNCHANGED <<memory_threshold_gb, mem_checks, recorded>>
    /\ UNCHANGED notBatch

Preprocess == StageCall("preprocess")

Assess == StageCall("assess")

\* self.wildcat.export(project_dir, format="Shapefile"): the external model may
\* leave a .shp in exports/ whether it returns or raises half-way
ExportShapefile ==
    /\ pc = "export_Shapefile"
    /\ \E out \in Outcomes, wrote \in BOOLEAN :
         /\ calls' = Logged("export_Shapefile", out)
         /\ exports_shp' =
              [exports_shp EXCEPT ![CurrentFire] = exports_shp[CurrentFire] \/ wrote]
         /\ IF out = "ok"
            THEN /\ pc' = NextStage("export_Shapefile")
                 /\ UNCHANGED <<idx, results, success_count, memory_errors,
                                other_errors>>
            ELSE RecordResult(FailureRecord(out,
                                  initialized_projects[CurrentFire].fire_size_mb))
    /\ UNCHANGED <<initialized_projects, skip_existing, sorted_projects,
                   returned, skipped, shp_at_call, runs>>
    /\ UNCHANGED <<memory_threshold_gb, mem_checks, recorded>>
    /\ UNCHANGED notBatch

\* self.wildcat.export(project_dir, format="GeoJSON"), then the listing of
\* exports/ and the success record
ExportGeoJSON ==
    /\ pc = "export_GeoJSON"
    /\ \E out \in Outcomes :
         /\ calls' = Logged("export_GeoJSON", out)
         /\ IF out = "ok" /\ NextStage("export_GeoJSON") = "done"
            THEN RecordResult(SuccessRecord(exports_shp[CurrentFire],
                                  initialized_projects[CurrentFire].fire_size_mb))
            ELSE IF out = "ok"
            THEN /\ pc' = NextStage("export_GeoJSON")
                 /\ UNCHANGED <<idx, results, success_count, memory_errors,
                                other_errors>>
            ELSE RecordResult(FailureRecord(out,
                                  initialized_projects[CurrentFire].fire_size_mb))
    /\ UNCHANGED <<initialized_projects, skip_existing, exports_shp,
                   sorted_projects, returned, skipped, shp_at_call, runs>>
    /\ UNCHANGED <<memory_threshold_gb, mem_checks, recorded>>
    /\ UNCHANGED notBatch

\* the loop is over: return results
ReturnResults ==
    /\ pc = "loop"
    /\ idx > Len(sorted_projects)
    /\ pc' = "returned"
    /\ returned' = results
    /\ UNCHANGED <<initialized_projects, skip_existing, exports_shp,
                   sorted_projects, idx, results, success_count, memory_errors,
                   other_errors, calls, skipped, shp_at_call, runs>>
    /\ UNCHANGED <<memory_threshold_gb, mem_checks, recorded>>
    /\ UNCHANGED notBatch

BatchNext ==
    \/ RunBatchAssessment
    \/ SkipFire
    \/ BeginAssessment
    \/ Preprocess
    \/ Assess
    \/ ExportShapefile
    \/ ExportGeoJSON
    \/ ReturnResults

BatchIdle ==
    /\ initialized_projects = EmptyMap
    /\ exports_shp = EmptyMap
    /\ skip_existing = TRUE
    /\ pc = "idle"
    /\ sorted_projects = <<>>
    /\ idx = 1
    /\ results = EmptyMap
    /\ success_count = 0
    /\ memory_errors = 0
    /\ other_errors = 0
    /\ returned = "none"
    /\ calls = <<>>
    /\ skipped = {}
    /\ shp_at_call = EmptyMap
    /\ runs = 0
    /\ memory_threshold_gb = DefaultThresholdGb
    /\ mem_checks = <<>>
    /\ recorded = EmptyMap

(***************************************************************************)
(* Text: the string operations the program uses, on sequences of           *)
(* one-character strings.                                                  *)
(***************************************************************************)
\* str.lower(), on the letters of the model's alphabet
LowerChar(c) == IF c = "A" THEN "a" ELSE IF c = "B" THEN "b" ELSE c

Lower(s) == [k \in 1..Len(s) |-> LowerChar(s[k])]

\* str.replace(old, new) for one-character old and new
Replace(s, old, new) == [k \in 1..Len(s) |-> IF s[k] = old THEN new ELSE s[k]]

\* s.split(sep)[0]: the text before the first sep, all of s when there is none
RECURSIVE BeforeFirst(_, _)
BeforeFirst(s, sep) ==
    IF s = <<>> \/ Head(s) = sep THEN <<>>
    ELSE <<Head(s)>> \o BeforeFirst(Tail(s), sep)

(***************************************************************************)
(* Remote asset uploader and DEM downloader:                               *)
(* src/src/data_acquisition/asset_uploader.py, gee_downloader.py           *)
(***************************************************************************)
\* asset_name = fire_name.lower().replace(" ", "_").replace("-", "_")
UploadAssetName(fire_name) ==
    Replace(Replace(Lower(fire_name), " ", "_"), "-", "_")

\* asset_id = f"{self.asset_path}/{year}/{asset_name}"
UploadAssetId(asset_path, fire_name, year) ==
    asset_path \o <<"/">> \o year \o <<"/">> \o UploadAssetName(fire_name)

\* batch_upload_perimeters: year = fire_name.split('_')[0], passed on
BatchUploadAssetId(asset_path, fire_name) ==
    UploadAssetId(asset_path, fire_name, BeforeFirst(fire_name, "_"))

\* a downloader that lower-cases and replaces spaces, but not hyphens
DownloadAssetIdKeepsHyphen(asset_path, fire_name) ==
    asset_path \o <<"/">> \o BeforeFirst(fire_name, "_") \o <<"/">>
        \o Replace(Lower(fire_name), " ", "_")

\* batch_download_dems: year, asset_name and asset_id built in place
DownloadAssetId(asset_path, fire_name) ==
    asset_path \o <<"/">> \o BeforeFirst(fire_name, "_") \o <<"/">>
        \o Replace(Replace(Lower(fire_name), " ", "_"), "-", "_")

\* the asset_path both the uploader and the downloader were constructed with
GeeAssetPath == <<"p">>

\* inventory keys {year}_{folder}; the first two differ only in case,
\* space and hyphen
InventoryNames ==
    {<<"2", "_", "a", "-", "b">>, <<"2", "_", "A", " ", "b">>, <<"3", "_", "c">>}

\* how long an export task may take: as long as the downloader's sleep, or a
\* second longer (the clock of the model advances in the sleep alone)
TaskDurations == {SleepSeconds, SleepSeconds + 1}

\* the remote store holds an asset once an export task to it has finished
AssetExists(id) ==
    \/ id \in asset_store
    \/ \E k \in DOMAIN export_tasks :
         /\ export_tasks[k].asset_id = id
         /\ clock >= export_tasks[k].started_at + export_tasks[k].duration

\* ee.data.getAsset(asset_id): returns, raises ee.EEException (no such asset),
\* or raises something else (the connection)
GetAssetResponses(id) ==
    (IF AssetExists(id) THEN {"found"} ELSE {"EEException"}) \cup {"ConnectionError"}

\* an uploader that goes on to upload whatever getAsset answered
AfterGetAssetAlwaysUpload(resp) ==
    IF resp = "ConnectionError" THEN "fail" ELSE "upload"

\* try: getAsset ... return already_exists / except ee.EEException: pass /
\* anything else reaches the outer except
AfterGetAsset(resp) ==
    IF resp = "found" THEN "already_exists"
    ELSE IF resp = "EEException" THEN "upload"
    ELSE "fail"

\* a collector that counts successes only
TallySuccessOnly(result) ==
    IF result.success THEN [successful |-> 1, failed |-> 0]
    ELSE [successful |-> 0, failed |-> 0]

\* if result['success']: successful += 1 / else: failed += 1
Tally(result) ==
    IF result.success THEN [successful |-> 1, failed |-> 0]
    ELSE [successful |-> 0, failed |-> 1]

\* the futures a pool's workers are running
Running(future) == {n \in DOMAIN future : future[n] = "running"}

NoFutures == [n \in DOMAIN fire_inventory |-> "none"]

GeeInit ==
    /\ \E names \in SUBSET InventoryNames :
         /\ Cardinality(names) <= MaxInventory
         /\ fire_inventory \in [names -> {[has_perimeter |-> TRUE],
                                          [has_perimeter |-> FALSE]}]
    /\ asset_store \in
         SUBSET {BatchUploadAssetId(GeeAssetPath, n) : n \in DOMAIN fire_inventory}
    /\ export_tasks = <<>>
    /\ clock = 0
    /\ gpc = "idle"
    /\ max_parallel \in 1..MaxWorkers
    /\ up_future = NoFutures
    /\ up_result = NoFutures
    /\ up_env = [n \in DOMAIN fire_inventory |-> <<>>]
    /\ upload_results = [successful |-> 0, failed |-> 0, tasks |-> {}]
    /\ down_future = NoFutures
    /\ down_result = NoFutures
    /\ down_env = [n \in DOMAIN fire_inventory |-> <<>>]
    /\ down_started_at = [n \in DOMAIN fire_inventory |-> {}]
    /\ download_results = [successful |-> 0, failed |-> 0, downloads |-> {}]

GeeIdle ==
    /\ fire_inventory = EmptyMap
    /\ asset_store = {}
    /\ export_tasks = <<>>
    /\ clock = 0
    /\ gpc = "idle"
    /\ max_parallel = 1
    /\ up_future = EmptyMap
    /\ up_result = EmptyMap
    /\ up_env = EmptyMap
    /\ upload_results = [successful |-> 0, failed |-> 0, tasks |-> {}]
    /\ down_future = EmptyMap
    /\ down_result = EmptyMap
    /\ down_env = EmptyMap
    /\ down_started_at = EmptyMap
    /\ download_results = [successful |-> 0, failed |-> 0, downloads |-> {}]

\* batch_upload_perimeters is called: one future per fire that has a perimeter
BatchUploadPerimeters ==
    /\ gpc = "idle"
    /\ up_future' = [n \in DOMAIN fire_inventory |->
                        IF fire_inventory[n].has_perimeter THEN "pending" ELSE "none"]
    /\ upload_results' = [successful |-> 0, failed |-> 0, tasks |-> {}]
    /\ gpc' = "upload_collect"
    /\ UNCHANGED <<fire_inventory, asset_store, export_tasks, clock, max_parallel,
                   up_result, up_env, down_future, down_result, down_env,
                   down_started_at, download_results>>
    /\ UNCHANGED notGee

\* a worker starts upload_fire_perimeter: the asset id and the existence check
UploadGetAsset(n) ==
    /\ up_future[n] = "pending"
    /\ Cardinality(Running(up_future)) < max_parallel
    /\ LET id == BatchUploadAssetId(GeeAssetPath, n) IN
       \E resp \in GetAssetResponses(id) :
         /\ up_env' = [up_env EXCEPT ![n] = Append(@, resp)]
         /\ \/ /\ AfterGetAsset(resp) = "already_exists"
               /\ up_future' = [up_future EXCEPT ![n] = "done"]
               /\ up_result' = [up_result EXCEPT ![n] =
                     [success |-> TRUE, asset_id |-> id, status |-> "already_exists"]]
            \/ /\ AfterGetAsset(resp) = "upload"
               /\ up_future' = [up_future EXCEPT ![n] = "running"]
               /\ UNCHANGED up_result
            \/ /\ AfterGetAsset(resp) = "fail"
               /\ up_future' = [up_future EXCEPT ![n] = "done"]
               /\ up_result' = [up_result EXCEPT ![n] =
                     [success |-> FALSE, error |-> resp]]
    /\ UNCHANGED <<fire_inventory, asset_store, export_tasks, clock, gpc,
                   max_parallel, upload_results, down_future, down_result,
                   down_env, down_started_at, download_results>>
    /\ UNCHANGED notGee

\* the worker goes on: Export.table.toAsset(...) and task.start(), which either
\* starts an export task or raises
UploadStartTask(n) ==
    /\ up_future[n] = "running"
    /\ LET id == BatchUploadAssetId(GeeAssetPath, n) IN
       \/ \E d \in TaskDurations :
            /\ export_tasks' = Append(export_tasks,
                  [asset_id |-> id, fire_name |-> n, started_at |-> clock,
                   duration |-> d])
            /\ up_env' = [up_env EXCEPT ![n] = Append(@, "started")]
            /\ up_result' = [up_result EXCEPT ![n] =
                  [success |-> TRUE, asset_id |-> id,
                   task_id |-> Len(export_tasks) + 1, status |-> "started"]]
       \/ /\ up_env' = [up_env EXCEPT ![n] = Append(@, "EEException")]
          /\ up_result' = [up_result EXCEPT ![n] =
                [success |-> FALSE, error |-> "EEException"]]
          /\ UNCHANGED export_tasks
    /\ up_future' = [up_future EXCEPT ![n] = "done"]
    /\ UNCHANGED <<fire_inventory, asset_store, clock, gpc, max_parallel,
                   upload_results, down_future, down_result, down_env,
                   down_started_at, download_results>>
    /\ UNCHANGED notGee

\* as_completed yields a finished upload: append it and count it
CollectUpload(n) ==
    /\ gpc = "upload_collect"
    /\ up_future[n] = "done"
    /\ up_future' = [up_future EXCEPT ![n] = "collected"]
    /\ upload_results' =
         [successful |-> upload_results.successful + Tally(up_result[n]).successful,
          failed |-> upload_results.failed + Tally(up_result[n]).failed,
          tasks |-> upload_results.tasks \cup {n}]
    /\ UNCHANGED <<fire_inventory, asset_store, export_tasks, clock, gpc,
                   max_parallel, up_result, up_env, down_future, down_result,
                   down_env, down_started_at, download_results>>
    /\ UNCHANGED notGee

\* every future was yielded, the pool is shut down: return results
BatchUploadReturn ==
    /\ gpc = "upload_collect"
    /\ \A n \in DOMAIN up_future : up_future[n] \in {"none", "collected"}
    /\ gpc' = "uploaded"
    /\ UNCHANGED <<fire_inventory, asset_store, export_tasks, clock, max_parallel,
                   up_future, up_result, up_env, upload_results, down_future,
                   down_result, down_env, down_started_at, download_results>>
    /\ UNCHANGED notGee

\* batch_download_dems is called: time.sleep(30), then one future per fire
BatchDownloadDems ==
    /\ gpc = "uploaded"
    /\ clock' = clock + SleepSeconds
    /\ down_future' = [n \in DOMAIN fire_inventory |-> "pending"]
    /\ download_results' = [successful |-> 0, failed |-> 0, downloads |-> {}]
    /\ gpc' = "download_collect"
    /\ UNCHANGED <<fire_inventory, asset_store, export_tasks, max_parallel,
                   up_future, up_result, up_env, upload_results, down_result,
                   down_env, down_started_at>>
    /\ UNCHANGED notGee

\* a worker starts download_dem_for_fire: the perimeter asset is read when the
\* download URL is requested; a missing asset raises
DownloadRequest(n) ==
    /\ down_future[n] = "pending"
    /\ Cardinality(Running(down_future)) < max_parallel
    /\ down_started_at' = [down_started_at EXCEPT ![n] = {clock}]
    /\ \E resp \in (IF AssetExists(DownloadAssetId(GeeAssetPath, n))
                    THEN {"url", "EEException"} ELSE {"EEException"}) :
         /\ down_env' = [down_env EXCEPT ![n] = Append(@, resp)]
         /\ IF resp = "url"
            THEN /\ down_future' = [down_future EXCEPT ![n] = "running"]
                 /\ UNCHANGED down_result
            ELSE /\ down_future' = [down_future EXCEPT ![n] = "done"]
                 /\ down_result' = [down_result EXCEPT ![n] =
                       [success |-> FALSE, error |-> resp]]
    /\ UNCHANGED <<fire_inventory, asset_store, export_tasks, clock, gpc,
                   max_parallel, up_future, up_result, up_env, upload_results,
                   download_results>>
    /\ UNCHANGED notGee

\* the worker goes on: urllib.request.urlretrieve(url, output_path)
DownloadRetrieve(n) ==
    /\ down_future[n] = "running"
    /\ \E resp \in {"ok", "URLError"} :
         /\ down_env' = [down_env EXCEPT ![n] = Append(@, resp)]
         /\ down_result' = [down_result EXCEPT ![n] =
               IF resp = "ok"
               THEN [success |-> TRUE, output_path |-> n \o <<"_", "d", "e", "m">>]
               ELSE [success |-> FALSE, error |-> resp]]
    /\ down_future' = [down_future EXCEPT ![n] = "done"]
    /\ UNCHANGED <<fire_inventory, asset_store, export_tasks, clock, gpc,
                   max_parallel, up_future, up_result, up_env, upload_results,
                   down_started_at, download_results>>
    /\ UNCHANGED notGee

\* as_completed yields a finished download: append it and count it
CollectDownload(n) ==
    /\ gpc = "download_collect"
    /\ down_future[n] = "done"
    /\ down_future' = [down_future EXCEPT ![n] = "collected"]
    /\ download_results' =
         [successful |-> download_results.successful + Tally(down_result[n]).successful,
          failed |-> download_results.failed + Tally(down_result[n]).failed,
          downloads |-> download_results.downloads \cup {n}]
    /\ UNCHANGED <<fire_inventory, asset_store, export_tasks, clock, gpc,
                   max_parallel, up_future, up_result, up_env, upload_results,
                   down_result, down_env, down_started_at>>
    /\ UNCHANGED notGee

\* every future was yielded, the pool is shut down: return results
BatchDownloadReturn ==
    /\ gpc = "download_collect"
    /\ \A n \in DOMAIN down_future : down_future[n] = "collected"
    /\ gpc' = "downloaded"
    /\ UNCHANGED <<fire_inventory, asset_store, export_tasks, clock, max_parallel,
                   up_future, up_result, up_env, upload_results, down_future,
                   down_result, down_env, down_started_at, download_results>>
    /\ UNCHANGED notGee

GeeNext ==
    \/ BatchUploadPerimeters
    \/ \E n \in DOMAIN fire_inventory : UploadGetAsset(n)
    \/ \E n \in DOMAIN fire_inventory : UploadStartTask(n)
    \/ \E n \in DOMAIN fire_inventory : CollectUpload(n)
    \/ BatchUploadReturn
    \/ BatchDownloadDems
    \/ \E n \in DOMAIN fire_inventory : DownloadRequest(n)
    \/ \E n \in DOMAIN fire_inventory : DownloadRetrieve(n)
    \/ \E n \in DOMAIN fire_inventory : CollectDownload(n)
    \/ BatchDownloadReturn

(***************************************************************************)
(* upload_fire_perimeter called directly, any number of times for a fire:  *)
(* src/src/data_acquisition/asset_uploader.py                              *)
(***************************************************************************)
UploadInit ==
    /\ \E names \in SUBSET InventoryNames :
         /\ names # {}
         /\ Cardinality(names) <= MaxInventory
         /\ fire_inventory \in [names -> {[has_perimeter |-> TRUE]}]
    /\ asset_store \in
         SUBSET {BatchUploadAssetId(GeeAssetPath, n) : n \in DOMAIN fire_inventory}
    /\ export_tasks = <<>>
    /\ clock = 0
    /\ gpc = "direct"
    /\ max_parallel \in 1..MaxWorkers
    /\ up_future = NoFutures
    /\ up_result = NoFutures
    /\ up_env = [n \in DOMAIN fire_inventory |-> <<>>]
    /\ upload_results = [successful |-> 0, failed |-> 0, tasks |-> {}]
    /\ down_future = NoFutures
    /\ down_result = NoFutures
    /\ down_env = [n \in DOMAIN fire_inventory |-> <<>>]
    /\ down_started_at = [n \in DOMAIN fire_inventory |-> {}]
    /\ download_results = [successful |-> 0, failed |-> 0, downloads |-> {}]

\* upload_fire_perimeter(fire_name, perimeter_path, year) is called for a fire
\* whose earlier call, if any, has returned
UploadFirePerimeter(n) ==
    /\ gpc = "direct"
    /\ up_future[n] \in {"none", "done"}
    /\ Len(export_tasks) < MaxTasks
    /\ up_future' = [up_future EXCEPT ![n] = "pending"]
    /\ up_env' = [up_env EXCEPT ![n] = <<>>]
    /\ UNCHANGED <<fire_inventory, asset_store, export_tasks, clock, gpc,
                   max_parallel, up_result, upload_results, down_future,
                   down_result, down_env, down_started_at, download_results>>
    /\ UNCHANGED notGee

\* time passes between two calls, and export tasks under way may finish
TimePasses ==
    /\ gpc = "direct"
    /\ clock < MaxTicks * SleepSeconds
    /\ clock' = clock + SleepSeconds
    /\ UNCHANGED <<fire_inventory, asset_store, export_tasks, gpc, max_parallel,
                   up_future, up_result, up_env, upload_results, down_future,
                   down_result, down_env, down_started_at, download_results>>
    /\ UNCHANGED notGee

UploadNext ==
    \/ \E n \in DOMAIN fire_inventory : UploadFirePerimeter(n)
    \/ \E n \in DOMAIN fire_inventory : UploadGetAsset(n)
    \/ \E n \in DOMAIN fire_inventory : UploadStartTask(n)
    \/ TimePasses

(***************************************************************************)
(* Asset identifiers for any fire name: the upload batch and the download  *)
(* batch each construct the id of one fire.                                *)
(***************************************************************************)
\* the characters of a fire name: a digit, the underscore, a lower-case and an
\* upper-case letter, the space and the hyphen
NameAlphabet == {"2", "_", "a", "A", " ", "-"}

RECURSIVE TextsUpTo(_, _)
TextsUpTo(alphabet, n) ==
    IF n = 0 THEN {<<>>}
    ELSE LET shorter == TextsUpTo(alphabet, n - 1) IN
         shorter \cup {Append(t, c) : t \in shorter, c \in alphabet}

AssetBases == {<<"p">>, <<"p", "/", "q">>}

AssetInit ==
    /\ asset_base \in AssetBases
    /\ asset_fire \in TextsUpTo(NameAlphabet, MaxNameLen)
    /\ written_id = {}
    /\ read_id = {}

AssetIdle ==
    /\ asset_base = <<>>
    /\ asset_fire = <<>>
    /\ written_id = {}
    /\ read_id = {}

\* batch_upload_perimeters submits upload_fire_perimeter(fire_name, path, year),
\* which constructs the asset id it writes to
UploadConstructsId ==
    /\ written_id = {}
    /\ written_id' = {BatchUploadAssetId(asset_base, asset_fire)}
    /\ UNCHANGED <<asset_base, asset_fire, read_id>>
    /\ UNCHANGED notAsset

\* batch_download_dems constructs the asset id it reads from
DownloadConstructsId ==
    /\ read_id = {}
    /\ read_id' = {DownloadAssetId(asset_base, asset_fire)}
    /\ UNCHANGED <<asset_base, asset_fire, written_id>>
    /\ UNCHANGED notAsset

AssetNext ==
    \/ UploadConstructsId
    \/ DownloadConstructsId

(***************************************************************************)
(* Archive extractor: src/src/data_acquisition/mtbs_extractor.py           *)
(***************************************************************************)
\* str.strip(): leading and trailing spaces removed
RECURSIVE LStrip(_)
LStrip(s) == IF s # <<>> /\ Head(s) = " " THEN LStrip(Tail(s)) ELSE s

RECURSIVE RStrip(_)
RStrip(s) ==
    IF s # <<>> /\ s[Len(s)] = " " THEN RStrip(SubSeq(s, 1, Len(s) - 1)) ELSE s

Strip(s) == RStrip(LStrip(s))

\* str.replace(c, "")
RemoveChar(s, c) == LET Keep(x) == x # c IN SelectSeq(s, Keep)

\* str.split(sep): the parts between the separators
RECURSIVE SplitOn(_, _)
SplitOn(s, sep) ==
    IF \A k \in DOMAIN s : s[k] # sep THEN <<s>>
    ELSE <<BeforeFirst(s, sep)>>
            \o SplitOn(SubSeq(s, Len(BeforeFirst(s, sep)) + 2, Len(s)), sep)

\* parts[::-1]
Reversed(parts) == [k \in 1..Len(parts) |-> parts[Len(parts) + 1 - k]]

\* "".join(parts)
RECURSIVE Join(_)
Join(parts) == IF parts = <<>> THEN <<>> ELSE Head(parts) \o Join(Tail(parts))

\* a format_fire_date that joins the parts without reversing them
FormatFireDateInOrder(fire_date) ==
    Join(SplitOn(RemoveChar(RemoveChar(fire_date, " "), ","), "-"))

\* format_fire_date: spaces and commas removed, split at "-", reversed, joined
FormatFireDate(fire_date) ==
    Join(Reversed(SplitOn(RemoveChar(RemoveChar(fire_date, " "), ","), "-")))

\* re.sub(r'[<>:"/\\|?*]', '_', name)
InvalidChars == {"<", ">", ":", "\"", "/", "\\", "|", "?", "*"}

SanitizeFilename(name) ==
    [k \in 1..Len(name) |-> IF name[k] \in InvalidChars THEN "_" ELSE name[k]]

\* extract_fire_info: (fire_name, fire_date), each none ({}) or one text; a line
\* without a colon raises IndexError, and any exception gives (None, None)
ExtractFireInfo(archive) ==
    IF /\ archive.kind = "supplinf"
       /\ archive.name_line.kind # "no_colon"
       /\ archive.date_line.kind # "no_colon"
    THEN [fire_name |-> IF archive.name_line.kind = "value"
                        THEN {Strip(archive.name_line.text)} ELSE {},
          fire_date |-> IF archive.date_line.kind = "value"
                        THEN {Strip(archive.date_line.text)} ELSE {}]
    ELSE [fire_name |-> {}, fire_date |-> {}]

\* the truth value of an optional text: neither None nor ""
Truthy(opt) == opt # {} /\ opt # {<<>>}

TheText(opt) == CHOOSE t \in opt : TRUE

\* a rename that does not look whether the new name is taken
TargetIsFreeUnchecked(new_folder_name, dir) == TRUE

\* if not new_folder_path.exists()
TargetIsFree(new_folder_name, dir) == new_folder_name \notin DOMAIN dir

\* f"{safe_fire_name}_{formatted_date}"
NewFolderName(fire_name, formatted_date) ==
    SanitizeFilename(fire_name) \o <<"_">> \o formatted_date

Without(dir, name) == [x \in DOMAIN dir \ {name} |-> dir[x]]

\* extract_single_bundle on archive `stem` in a year folder holding `dir`:
\* the year folder afterwards and the record returned
ExtractSingleBundle(stem, archive, dir) ==
    LET made == IF stem \in DOMAIN dir THEN dir ELSE Put(dir, stem, {})
        extracted == [made EXCEPT ![stem] = @ \cup {stem}]
        has_xml == archive.kind \in {"unparsable", "no_supplinf", "supplinf"}
        info == ExtractFireInfo(archive)
        stays == [dir |-> extracted,
                  result |-> [success |-> TRUE, original |-> stem,
                              extracted_to |-> stem,
                              fire_name |-> {}, fire_date |-> {}]]
    IN  IF archive.kind = "corrupt"
        THEN [dir |-> made,
              result |-> [success |-> FALSE, original |-> stem,
                          error |-> "BadZipFile"]]
        ELSE IF has_xml /\ Truthy(info.fire_name) /\ Truthy(info.fire_date)
        THEN LET formatted_date == FormatFireDate(TheText(info.fire_date))
                 new_folder_name ==
                     NewFolderName(TheText(info.fire_name), formatted_date)
             IN  IF formatted_date # <<>> /\ TargetIsFree(new_folder_name, extracted)
                 THEN [dir |-> Put(Without(extracted, stem), new_folder_name,
                                   extracted[stem]),
                       result |-> [success |-> TRUE, original |-> stem,
                                   extracted_to |-> new_folder_name,
                                   fire_name |-> info.fire_name,
                                   fire_date |-> info.fire_date]]
                 ELSE stays
        ELSE stays

\* the characters after "Fire Name:" and after "Date of Fire:"
FireNameChars == {"a", " ", "/"}
DateChars == {"1", "2", "-", " "}

\* a line of the supplementary information: absent, without a colon, or with
\* a text between its first and second colon
Lines(texts) ==
    {[kind |-> "absent"], [kind |-> "no_colon"]}
        \cup {[kind |-> "value", text |-> t] : t \in texts}

\* what an archive may hold: an unreadable zip, no *_metadata.xml, an XML that
\* does not parse, one without <supplinf>, or one with its lines
Archives ==
    {[kind |-> k] : k \in {"corrupt", "no_xml", "unparsable", "no_supplinf"}}
        \cup {[kind |-> "supplinf", name_line |-> n, date_line |-> d] :
                n \in Lines(TextsUpTo(FireNameChars, MaxFireNameLen)),
                d \in Lines(TextsUpTo(DateChars, MaxDateLen))}

\* archive stems; the second can coincide with a name the renaming produces
Stems == {<<"z">>, <<"a", "_", "1">>}

\* what a folder left by an earlier extraction holds
OldContent == {<<"o", "l", "d">>}

\* the name the archive's folder would be renamed to, if any
TargetNames(archive) ==
    LET info == ExtractFireInfo(archive) IN
    IF Truthy(info.fire_name) /\ Truthy(info.fire_date)
    THEN {NewFolderName(TheText(info.fire_name),
                        FormatFireDate(TheText(info.fire_date)))}
    ELSE {}

NoExtractResults == [successful |-> 0, failed |-> 0, details |-> <<>>]

\* the archives of a year folder that holds two: one of each way an archive
\* can go (unreadable, without metadata, unparsable metadata, a line without
\* a colon, renamed), the two renamed ones to the same name
PairArchives ==
    {[kind |-> k] : k \in {"corrupt", "no_xml", "unparsable"}}
        \cup {[kind |-> "supplinf", name_line |-> n,
                date_line |-> [kind |-> "value", text |-> <<"1">>]] :
                n \in {[kind |-> "no_colon"], [kind |-> "value", text |-> <<"a">>]}}

\* a collector that counts every detail as a success
TallyDetailAllSuccessful(result) == [successful |-> 1, failed |-> 0]

\* if result['success']: successful += 1 / else: failed += 1
TallyDetail(result) ==
    IF result.success THEN [successful |-> 1, failed |-> 0]
    ELSE [successful |-> 0, failed |-> 1]

\* one archive in the year folder, in which folders of earlier extractions
\* (under the stem, under the new name) may already exist; or two archives
ExtractInit ==
    /\ \/ \E stem \in Stems, archive \in Archives :
            /\ zip_files = [z \in {stem} |-> archive]
            /\ \E old \in SUBSET ({stem} \cup TargetNames(archive)) :
                 year_dir = [x \in old |-> OldContent]
       \/ /\ zip_files \in [Stems -> PairArchives]
          /\ year_dir = EmptyMap
    /\ epc = "idle"
    /\ all_zips = <<>>
    /\ extract_results = NoExtractResults
    /\ extract_log = <<>>
    /\ extract_runs = 0

ExtractIdle ==
    /\ zip_files = EmptyMap
    /\ year_dir = EmptyMap
    /\ epc = "idle"
    /\ all_zips = <<>>
    /\ extract_results = NoExtractResults
    /\ extract_log = <<>>
    /\ extract_runs = 0

\* the sequences that list each element of a set once: glob's order
Orderings(S) ==
    {q \in [1..Cardinality(S) -> S] : \A i, j \in 1..Cardinality(S) : q[i] = q[j] => i = j}

\* extract_all_bundles is called: collect the zip files of the year folder
ExtractAllBundles ==
    /\ epc \in {"idle", "returned"}
    /\ extract_runs < MaxExtractRuns
    /\ all_zips' \in Orderings(DOMAIN zip_files)
    /\ extract_results' = NoExtractResults
    /\ extract_log' = <<>>
    /\ extract_runs' = extract_runs + 1
    /\ epc' = "extracting"
    /\ UNCHANGED <<zip_files, year_dir>>
    /\ UNCHANGED notExtract

\* one turn of the loop: extract_single_bundle(zip_path), append and count
ExtractNextBundle ==
    /\ epc = "extracting"
    /\ all_zips # <<>>
    /\ LET stem == Head(all_zips)
           out == ExtractSingleBundle(stem, zip_files[stem], year_dir)
       IN  /\ year_dir' = out.dir
           /\ extract_results' =
                [successful |-> extract_results.successful
                                  + TallyDetail(out.result).successful,
                 failed |-> extract_results.failed
                                  + TallyDetail(out.result).failed,
                 details |-> Append(extract_results.details, out.result)]
           /\ extract_log' = Append(extract_log,
                [stem |-> stem, before |-> DOMAIN year_dir,
                 after |-> DOMAIN out.dir, held_before |-> year_dir,
                 held_after |-> out.dir, result |-> out.result])
    /\ all_zips' = Tail(all_zips)
    /\ UNCHANGED <<zip_files, epc, extract_runs>>
    /\ UNCHANGED notExtract

\* the loop is over: return results
ExtractAllReturn ==
    /\ epc = "extracting"
    /\ all_zips = <<>>
    /\ epc' = "returned"
    /\ UNCHANGED <<zip_files, year_dir, all_zips, extract_results, extract_log,
                   extract_runs>>
    /\ UNCHANGED notExtract

ExtractNext ==
    \/ ExtractAllBundles
    \/ ExtractNextBundle
    \/ ExtractAllReturn

(***************************************************************************)
(* Folder inventory: src/src/preprocessing/folder_organizer.py             *)
(* A file name is the words of its stem and its suffix.                    *)
(***************************************************************************)
\* str.lower() on the words of the model's file names
LowerWord(w) ==
    IF w = "Burn_Bndy" THEN "burn_bndy"
    ELSE IF w = "DNBR" THEN "dnbr"
    ELSE IF w = "DEM" THEN "dem"
    ELSE w

\* 'word' in file_path.name.lower()
NameHas(f, word) == \E k \in DOMAIN f.words : LowerWord(f.words[k]) = word

\* what may lie under a fire folder: files of each role, two of them under
\* capitals, one with two roles' words, one with a capital suffix, a file of
\* no role and a directory named like a DEM
FolderEntries ==
    {[words |-> <<"burn_bndy">>, suffix |-> ".shp", is_file |-> TRUE],
     [words |-> <<"x", "Burn_Bndy">>, suffix |-> ".shp", is_file |-> TRUE],
     [words |-> <<"burn_bndy">>, suffix |-> ".SHP", is_file |-> TRUE],
     [words |-> <<"dnbr">>, suffix |-> ".tif", is_file |-> TRUE],
     [words |-> <<"DNBR", "dem">>, suffix |-> ".tif", is_file |-> TRUE],
     [words |-> <<"dem">>, suffix |-> ".tif", is_file |-> TRUE],
     [words |-> <<"y", "DEM">>, suffix |-> ".tif", is_file |-> TRUE],
     [words |-> <<"metadata">>, suffix |-> ".xml", is_file |-> TRUE],
     [words |-> <<"z", "metadata">>, suffix |-> ".xml", is_file |-> TRUE],
     [words |-> <<"readme">>, suffix |-> ".txt", is_file |-> TRUE],
     [words |-> <<"dem">>, suffix |-> ".tif", is_file |-> FALSE]}

BytesPerMb == 1024 * 1024

\* file_path.stat().st_size
StatSize(f) == IF f.suffix = ".tif" THEN 2 * BytesPerMb ELSE BytesPerMb

\* str(file_path) of an entry under a fire folder
PathOf(folder, f) == <<folder, f.words, f.suffix>>

\* the record _check_fire_files starts from; {} is None, and the keys
\* 'perimeter', 'dnbr', 'dem' are absent while {}
NoFiles ==
    [has_perimeter |-> FALSE, has_dnbr |-> FALSE, has_dem |-> FALSE,
     has_metadata |-> FALSE, perimeter_path |-> {}, dnbr_path |-> {},
     dem_path |-> {}, metadata_path |-> {}, perimeter |-> {}, dnbr |-> {},
     dem |-> {}]

\* a scan that keeps the first file of a role
CheckOneFileFirstWins(rec, folder, f) ==
    IF ~f.is_file THEN rec
    ELSE IF NameHas(f, "burn_bndy") /\ f.suffix = ".shp"
    THEN IF rec.has_perimeter THEN rec
         ELSE [rec EXCEPT !.has_perimeter = TRUE,
                          !.perimeter_path = {PathOf(folder, f)},
                          !.perimeter = {PathOf(folder, f)}]
    ELSE IF NameHas(f, "dnbr") /\ f.suffix = ".tif"
    THEN IF rec.has_dnbr THEN rec
         ELSE [rec EXCEPT !.has_dnbr = TRUE, !.dnbr_path = {PathOf(folder, f)},
                          !.dnbr = {PathOf(folder, f)}]
    ELSE IF NameHas(f, "dem") /\ f.suffix = ".tif"
    THEN IF rec.has_dem THEN rec
         ELSE [rec EXCEPT !.has_dem = TRUE, !.dem_path = {PathOf(folder, f)},
                          !.dem = {PathOf(folder, f)}]
    ELSE IF NameHas(f, "metadata") /\ f.suffix = ".xml"
    THEN IF rec.has_metadata THEN rec
         ELSE [rec EXCEPT !.has_metadata = TRUE,
                          !.metadata_path = {PathOf(folder, f)}]
    ELSE rec

\* one turn of the loop of _check_fire_files
CheckOneFile(rec, folder, f) ==
    IF ~f.is_file THEN rec
    ELSE IF NameHas(f, "burn_bndy") /\ f.suffix = ".shp"
    THEN [rec EXCEPT !.has_perimeter = TRUE,
                     !.perimeter_path = {PathOf(folder, f)},
                     !.perimeter = {PathOf(folder, f)}]
    ELSE IF NameHas(f, "dnbr") /\ f.suffix = ".tif"
    THEN [rec EXCEPT !.has_dnbr = TRUE, !.dnbr_path = {PathOf(folder, f)},
                     !.dnbr = {PathOf(folder, f)}]
    ELSE IF NameHas(f, "dem") /\ f.suffix = ".tif"
    THEN [rec EXCEPT !.has_dem = TRUE, !.dem_path = {PathOf(folder, f)},
                     !.dem = {PathOf(folder, f)}]
    ELSE IF NameHas(f, "metadata") /\ f.suffix = ".xml"
    THEN [rec EXCEPT !.has_metadata = TRUE,
                     !.metadata_path = {PathOf(folder, f)}]
    ELSE rec

\* _get_folder_size: the sizes of the files under the folder, in MB
RECURSIVE TotalSize(_)
TotalSize(entries) ==
    IF entries = <<>> THEN 0
    ELSE (IF Head(entries).is_file THEN StatSize(Head(entries)) ELSE 0)
            + TotalSize(Tail(entries))

GetFolderSize(entries) == TotalSize(entries) \div BytesPerMb

\* the year folder's name
YearName == <<"2">>

\* f"{year_folder.name}_{fire_folder.name}"
FireKey(folder) == YearName \o <<"_">> \o folder

\* the listings of up to n different entries, in every order
RECURSIVE ListingsUpTo(_, _)
ListingsUpTo(S, n) ==
    IF n = 0 THEN {<<>>}
    ELSE LET shorter == ListingsUpTo(S, n - 1) IN
         shorter \cup {Append(q, x) : q \in shorter, x \in S}

NoRepeat(q) == \A i, j \in DOMAIN q : q[i] = q[j] => i = j

\* what else the year folder may hold next to the fire folder "a": a second
\* fire folder, a hidden folder, a plain file
OtherYearEntries ==
    {[name |-> <<"b">>, is_dir |-> TRUE,
      under |-> <<[words |-> <<"dem">>, suffix |-> ".tif", is_file |-> TRUE]>>],
     [name |-> <<".", "h">>, is_dir |-> TRUE,
      under |-> <<[words |-> <<"dnbr">>, suffix |-> ".tif", is_file |-> TRUE]>>],
     [name |-> <<"n">>, is_dir |-> FALSE, under |-> <<>>]}

InventoryInit ==
    /\ \E listing \in {q \in ListingsUpTo(FolderEntries, MaxFiles) : NoRepeat(q)} :
       \E others \in {{}} \cup {{x} : x \in OtherYearEntries} :
       \E first \in BOOLEAN :
         LET a == <<[name |-> <<"a">>, is_dir |-> TRUE, under |-> listing]>>
             rest == IF others = {} THEN <<>> ELSE <<CHOOSE x \in others : TRUE>>
         IN  root_tree = IF first THEN a \o rest ELSE rest \o a
    /\ ipc = "idle"
    /\ fire_queue = <<>>
    /\ file_queue = <<>>
    /\ fire_data = NoFiles
    /\ inventory = EmptyMap
    /\ inventories = <<>>
    /\ tree_at_start = root_tree
    /\ inv_runs = 0

InventoryIdle ==
    /\ root_tree = <<>>
    /\ ipc = "idle"
    /\ fire_queue = <<>>
    /\ file_queue = <<>>
    /\ fire_data = NoFiles
    /\ inventory = EmptyMap
    /\ inventories = <<>>
    /\ tree_at_start = <<>>
    /\ inv_runs = 0

\* fire_folder.is_dir() and not fire_folder.name.startswith('.')
IsFireFolder(entry) == entry.is_dir /\ Head(entry.name) # "."

\* get_fire_inventory is called: list the year folder
GetFireInventory ==
    /\ ipc \in {"idle", "returned"}
    /\ inv_runs < MaxInventoryRuns
    /\ inv_runs' = inv_runs + 1
    /\ inventory' = EmptyMap
    /\ fire_queue' = root_tree
    /\ ipc' = "listing"
    /\ UNCHANGED <<root_tree, file_queue, fire_data, inventories, tree_at_start>>
    /\ UNCHANGED notInventory

\* an entry of the year folder that is no fire folder is passed over
PassOverEntry ==
    /\ ipc = "listing"
    /\ fire_queue # <<>>
    /\ ~IsFireFolder(Head(fire_queue))
    /\ fire_queue' = Tail(fire_queue)
    /\ UNCHANGED <<root_tree, ipc, file_queue, fire_data, inventory, inventories,
                   tree_at_start, inv_runs>>
    /\ UNCHANGED notInventory

\* _check_fire_files is entered for a fire folder
BeginCheckFireFiles ==
    /\ ipc = "listing"
    /\ fire_queue # <<>>
    /\ IsFireFolder(Head(fire_queue))
    /\ fire_data' = NoFiles
    /\ file_queue' = Head(fire_queue).under
    /\ ipc' = "checking"
    /\ UNCHANGED <<root_tree, fire_queue, inventory, inventories, tree_at_start,
                   inv_runs>>
    /\ UNCHANGED notInventory

\* one entry under the fire folder
CheckNextFile ==
    /\ ipc = "checking"
    /\ file_queue # <<>>
    /\ fire_data' = CheckOneFile(fire_data, Head(fire_queue).name, Head(file_queue))
    /\ file_queue' = Tail(file_queue)
    /\ UNCHANGED <<root_tree, ipc, fire_queue, inventory, inventories,
                   tree_at_start, inv_runs>>
    /\ UNCHANGED notInventory

\* a scan that leaves an index file behind in the fire folder
RecordFireLeavingIndex ==
    /\ ipc = "checking"
    /\ file_queue = <<>>
    /\ LET entry == Head(fire_queue)
           index == [words |-> <<"index">>, suffix |-> ".txt", is_file |-> TRUE]
       IN  /\ inventory' = Put(inventory, FireKey(entry.name),
                 [found |-> fire_data, folder |-> entry.name, year |-> YearName,
                  size_mb |-> GetFolderSize(entry.under)])
           /\ root_tree' = [k \in DOMAIN root_tree |->
                 IF root_tree[k].name = entry.name
                 THEN [root_tree[k] EXCEPT !.under = Append(@, index)]
                 ELSE root_tree[k]]
    /\ fire_queue' = Tail(fire_queue)
    /\ ipc' = "listing"
    /\ UNCHANGED <<file_queue, fire_data, inventories, tree_at_start, inv_runs>>
    /\ UNCHANGED notInventory

\* _check_fire_files returned: folder, year and size_mb are added and the
\* record is stored under the fire's key
RecordFire ==
    /\ ipc = "checking"
    /\ file_queue = <<>>
    /\ LET entry == Head(fire_queue) IN
       inventory' = Put(inventory, FireKey(entry.name),
            [found |-> fire_data, folder |-> entry.name, year |-> YearName,
             size_mb |-> GetFolderSize(entry.under)])
    /\ fire_queue' = Tail(fire_queue)
    /\ ipc' = "listing"
    /\ UNCHANGED <<root_tree, file_queue, fire_data, inventories, tree_at_start,
                   inv_runs>>
    /\ UNCHANGED notInventory

\* the year folder is done: return inventory
InventoryReturn ==
    /\ ipc = "listing"
    /\ fire_queue = <<>>
    /\ inventories' = Append(inventories, inventory)
    /\ ipc' = "returned"
    /\ UNCHANGED <<root_tree, fire_queue, file_queue, fire_data, inventory,
                   tree_at_start, inv_runs>>
    /\ UNCHANGED notInventory

InventoryNext ==
    \/ GetFireInventory
    \/ PassOverEntry
    \/ BeginCheckFireFiles
    \/ CheckNextFile
    \/ RecordFire
    \/ InventoryReturn

(***************************************************************************)
(* Data validator: src/src/preprocessing/data_validator.py                 *)
(* An optional value (a CRS, a nodata value, a result, a metadata          *)
(* dictionary) is {} when None or empty, {v} otherwise.                    *)
(***************************************************************************)
Components == {"dem", "perimeter", "dnbr"}

CrsValues == {"EPSG:4326", "EPSG:5070"}

\* str(src.crs), str(gdf.crs)
StrCrs(crs) == IF crs = {} THEN "None" ELSE CHOOSE c \in crs : TRUE

\* a validity rule that lets one issue pass
ValidOfAtMostOneIssue(issues) == Len(issues) <= 1

\* results['valid'] = len(results['issues']) == 0
ValidOf(issues) == Len(issues) = 0

\* a band check that asks for at least one band
BandIssueAtLeastOne(count) ==
    IF count < 1 THEN <<"Expected 1 band">> ELSE <<>>

\* if src.count != 1
BandIssue(count) ==
    IF count # 1 THEN <<"Expected 1 band">> ELSE <<>>

\* if src.crs is None / if gdf.crs is None
CrsIssue(crs) == IF crs = {} THEN <<"No CRS defined">> ELSE <<>>

\* if src.nodata is None
NodataIssue(nodata) ==
    IF nodata = {} THEN <<"No nodata value defined">> ELSE <<>>

\* src.read(1) returns: the file's data can be read and it has a first band
CanRead(file) == file.readable /\ file.count >= 1

\* ~(data == src.nodata) if src.nodata else data != 0, then .any()
AnyValidPixel(file) ==
    LET nodata == IF file.nodata = {} THEN 0 ELSE CHOOSE v \in file.nodata : TRUE
    IN  \E k \in DOMAIN file.data : file.data[k] # nodata

MissingFile == [kind |-> "missing"]

UnreadableFile == [kind |-> "unreadable"]

FileDoesNotExist ==
    [valid |-> FALSE, issues |-> <<"File does not exist">>, metadata |-> {}]

ValidateDem(file) ==
    IF file.kind = "missing" THEN FileDoesNotExist
    ELSE IF file.kind # "raster"
    THEN [valid |-> FALSE, issues |-> <<"Error reading DEM">>, metadata |-> {}]
    ELSE LET meta == {[bands |-> file.count, crs |-> StrCrs(file.crs),
                       nodata |-> file.nodata]}
             checked == BandIssue(file.count) \o CrsIssue(file.crs)
                            \o NodataIssue(file.nodata)
         IN  IF ~CanRead(file)
             THEN [valid |-> FALSE,
                   issues |-> Append(checked, "Error reading DEM"),
                   metadata |-> meta]
             ELSE LET issues == checked \o
                        (IF AnyValidPixel(file) THEN <<>>
                         ELSE <<"No valid elevation data">>)
                  IN  [valid |-> ValidOf(issues), issues |-> issues,
                       metadata |-> meta]

\* invalid_geoms.any()
InvalidGeometryIssue(features) ==
    IF \E k \in DOMAIN features : ~features[k].is_valid
    THEN <<"invalid geometries">> ELSE <<>>

\* not all(geom_type in ['Polygon', 'MultiPolygon'] ...)
NonPolygonIssue(features) ==
    IF \A k \in DOMAIN features :
          features[k].geom_type \in {"Polygon", "MultiPolygon"}
    THEN <<>> ELSE <<"Non-polygon geometries found">>

ValidatePerimeter(file) ==
    IF file.kind = "missing" THEN FileDoesNotExist
    ELSE IF file.kind # "vector"
    THEN [valid |-> FALSE, issues |-> <<"Error reading perimeter">>,
          metadata |-> {}]
    ELSE LET issues ==
                (IF file.features = <<>> THEN <<"No features in shapefile">>
                 ELSE <<>>)
                \o CrsIssue(file.crs)
                \o InvalidGeometryIssue(file.features)
                \o NonPolygonIssue(file.features)
         IN  [valid |-> ValidOf(issues), issues |-> issues,
              metadata |-> {[features |-> Len(file.features),
                             crs |-> StrCrs(file.crs)]}]

\* data.min(), data.max()
DataMin(data) == CHOOSE v \in {data[k] : k \in DOMAIN data} :
                    \A k \in DOMAIN data : v <= data[k]

DataMax(data) == CHOOSE v \in {data[k] : k \in DOMAIN data} :
                    \A k \in DOMAIN data : v >= data[k]

\* if data_min < -3000 or data_max > 3000
RangeIssue(data) ==
    IF DataMin(data) < -DnbrLimit \/ DataMax(data) > DnbrLimit
    THEN <<"Unusual dNBR range">> ELSE <<>>

ValidateDnbr(file) ==
    IF file.kind = "missing" THEN FileDoesNotExist
    ELSE IF file.kind # "raster"
    THEN [valid |-> FALSE, issues |-> <<"Error reading dNBR">>, metadata |-> {}]
    ELSE LET meta == {[bands |-> file.count, crs |-> StrCrs(file.crs)]}
             checked == BandIssue(file.count) \o CrsIssue(file.crs)
         IN  IF ~CanRead(file)
             THEN [valid |-> FALSE,
                   issues |-> Append(checked, "Error reading dNBR"),
                   metadata |-> meta]
             ELSE LET issues == checked \o RangeIssue(file.data)
                  IN  [valid |-> ValidOf(issues), issues |-> issues,
                       metadata |-> meta]

\* a fire verdict that follows the component validated last
FireValidOfLastComponent(fire_valid, result) == result.valid

\* if not results[component]['valid']: results['fire_valid'] = False
FireValidAfterComponent(fire_valid, result) ==
    IF ~result.valid THEN FALSE ELSE fire_valid

\* crs_list as a set: the 'crs' of each component's metadata, where the
\* component has a result with metadata and the text is not empty
ReportedCrs(validation) ==
    LET Of(sub) == IF sub = {} THEN {}
                   ELSE LET meta == (CHOOSE r \in sub : TRUE).metadata IN
                        IF meta = {} THEN {}
                        ELSE {m.crs : m \in {x \in meta : x.crs # ""}}
    IN  Of(validation.dem) \cup Of(validation.perimeter) \cup Of(validation.dnbr)

\* a consistency check that never finds a mismatch
CrsMatchAlways(reported) == TRUE

\* len(set(crs_list)) > 1 makes crs_match False
CrsMatch(reported) == ~(Cardinality(reported) > 1)

\* a verdict the CRS check does not touch
FireValidIgnoringCrs(fire_valid, match) == fire_valid

\* the CRS check also sets results['fire_valid'] = False on a mismatch
FireValidAfterCrs(fire_valid, match) == IF match THEN fire_valid ELSE FALSE

OptionalCrs == {{}} \cup {{c} : c \in CrsValues}

Raster(count, crs, nodata, data, readable) ==
    [kind |-> "raster", count |-> count, crs |-> crs, nodata |-> nodata,
     data |-> data, readable |-> readable]

Vector(crs, features) == [kind |-> "vector", crs |-> crs, features |-> features]

\* the first band of a raster: at least one pixel
PixelArrays(values) == ListingsUpTo(values, MaxPixels) \ {<<>>}

DemFiles ==
    {MissingFile, UnreadableFile}
        \cup {Raster(count, crs, nodata, data, readable) :
                count \in 0..MaxBands, crs \in OptionalCrs,
                nodata \in {{}, {0}, {-1}}, data \in PixelArrays({-1, 0, 5}),
                readable \in BOOLEAN}

DnbrFiles ==
    {MissingFile, UnreadableFile}
        \cup {Raster(count, crs, {}, data, readable) :
                count \in 0..MaxBands, crs \in OptionalCrs,
                data \in PixelArrays({-DnbrLimit - 1, -2000, 0, 2000, DnbrLimit + 1}),
                readable \in BOOLEAN}

FeatureKinds ==
    [is_valid : BOOLEAN, geom_type : {"Polygon", "MultiPolygon", "Point"}]

PerimeterFiles ==
    {MissingFile, UnreadableFile}
        \cup {Vector(crs, features) :
                crs \in OptionalCrs,
                features \in ListingsUpTo(FeatureKinds, MaxFeatures)}

\* the files of a fire that has several components: each component sound
\* under either CRS or under none, or with one defect, or not there
FireDems ==
    {MissingFile, Raster(2, {"EPSG:4326"}, {-1}, <<5>>, TRUE)}
        \cup {Raster(1, crs, {-1}, <<-1, 5>>, TRUE) : crs \in OptionalCrs}
        \cup {Raster(1, {"EPSG:4326"}, {-1}, <<5>>, FALSE)}

FirePerimeters ==
    {MissingFile,
     Vector({"EPSG:4326"}, <<[is_valid |-> FALSE, geom_type |-> "Polygon"]>>)}
        \cup {Vector(crs, <<[is_valid |-> TRUE, geom_type |-> "Polygon"]>>) :
                crs \in OptionalCrs}

FireDnbrs ==
    {MissingFile, Raster(1, {"EPSG:4326"}, {}, <<0, DnbrLimit + 1>>, TRUE)}
        \cup {Raster(1, crs, {}, <<-2000, 2000>>, TRUE) : crs \in OptionalCrs}

FilesOf(component) ==
    CASE component = "dem" -> DemFiles
      [] component = "perimeter" -> PerimeterFiles
      [] component = "dnbr" -> DnbrFiles

\* results as validate_fire_data sets it up
NoValidation ==
    [fire_valid |-> TRUE, dem |-> {}, perimeter |-> {}, dnbr |-> {},
     crs_match |-> TRUE]

\* a fire with one component and any file for it, or a fire with any of the
\* components, each with one of the files above
ValidateInit ==
    /\ \/ \E c \in Components : \E file \in FilesOf(c) :
            /\ fire_paths = [x \in Components |-> x = c]
            /\ disk = [x \in Components |-> IF x = c THEN file ELSE MissingFile]
       \/ /\ fire_paths \in [Components -> BOOLEAN]
          /\ \E d \in FireDems, p \in FirePerimeters, n \in FireDnbrs :
               disk = [x \in Components |->
                         IF ~fire_paths[x] THEN MissingFile
                         ELSE IF x = "dem" THEN d
                         ELSE IF x = "perimeter" THEN p
                         ELSE n]
    /\ vpc = "idle"
    /\ v_results = NoValidation

ValidateIdle ==
    /\ fire_paths = [x \in Components |-> FALSE]
    /\ disk = [x \in Components |-> MissingFile]
    /\ vpc = "idle"
    /\ v_results = NoValidation

\* validate_fire_data is called
ValidateFireData ==
    /\ vpc = "idle"
    /\ v_results' = NoValidation
    /\ vpc' = "dem"
    /\ UNCHANGED <<fire_paths, disk>>
    /\ UNCHANGED notValidate

\* if fire_data.get('dem'): validate_dem
FireValidateDem ==
    /\ vpc = "dem"
    /\ IF fire_paths["dem"]
       THEN LET r == ValidateDem(disk["dem"]) IN
            v_results' = [v_results EXCEPT
                            !.dem = {r},
                            !.fire_valid = FireValidAfterComponent(@, r)]
       ELSE UNCHANGED v_results
    /\ vpc' = "perimeter"
    /\ UNCHANGED <<fire_paths, disk>>
    /\ UNCHANGED notValidate

\* if fire_data.get('perimeter'): validate_perimeter
FireValidatePerimeter ==
    /\ vpc = "perimeter"
    /\ IF fire_paths["perimeter"]
       THEN LET r == ValidatePerimeter(disk["perimeter"]) IN
            v_results' = [v_results EXCEPT
                            !.perimeter = {r},
                            !.fire_valid = FireValidAfterComponent(@, r)]
       ELSE UNCHANGED v_results
    /\ vpc' = "dnbr"
    /\ UNCHANGED <<fire_paths, disk>>
    /\ UNCHANGED notValidate

\* if fire_data.get('dnbr'): validate_dnbr
FireValidateDnbr ==
    /\ vpc = "dnbr"
    /\ IF fire_paths["dnbr"]
       THEN LET r == ValidateDnbr(disk["dnbr"]) IN
            v_results' = [v_results EXCEPT
                            !.dnbr = {r},
                            !.fire_valid = FireValidAfterComponent(@, r)]
       ELSE UNCHANGED v_results
    /\ vpc' = "crs"
    /\ UNCHANGED <<fire_paths, disk>>
    /\ UNCHANGED notValidate

\* the CRS consistency check, and return results
CheckCrsConsistency ==
    /\ vpc = "crs"
    /\ LET match == CrsMatch(ReportedCrs(v_results)) IN
       v_results' = [v_results EXCEPT
                       !.crs_match = match,
                       !.fire_valid = FireValidAfterCrs(@, match)]
    /\ vpc' = "returned"
    /\ UNCHANGED <<fire_paths, disk>>
    /\ UNCHANGED notValidate

ValidateNext ==
    \/ ValidateFireData
    \/ FireValidateDem
    \/ FireValidatePerimeter
    \/ FireValidateDnbr
    \/ CheckCrsConsistency

(***************************************************************************)
(* Data clipper: src/src/preprocessing/data_clipper.py                     *)
(***************************************************************************)
ClipFunctions == {"clip_raster", "clip_vector"}

\* a file that cannot be read, or one with a CRS or with none
ClipFiles ==
    {UnreadableFile} \cup {[kind |-> "spatial", crs |-> crs] : crs \in OptionalCrs}

ClipInit ==
    /\ clip_call \in [op : ClipFunctions, buffer_distance : {0, 1}]
    /\ dataset_file \in ClipFiles
    /\ perimeter_file \in ClipFiles
    /\ cpc = "idle"
    /\ dataset_crs = {}
    /\ perimeter_crs = {}
    /\ reprojected = {}
    /\ clip_output = {}
    /\ clip_returned = "none"

ClipIdle ==
    /\ clip_call = [op |-> "clip_raster", buffer_distance |-> 0]
    /\ dataset_file = UnreadableFile
    /\ perimeter_file = UnreadableFile
    /\ cpc = "idle"
    /\ dataset_crs = {}
    /\ perimeter_crs = {}
    /\ reprojected = {}
    /\ clip_output = {}
    /\ clip_returned = "none"

\* gdf.to_crs(crs) raises on a frame without CRS and on crs = None
ToCrsRaises(from, to) == from = {} \/ to = {}

\* the call is made: the perimeter and the dataset are read (the perimeter
\* buffered when asked, which keeps its CRS); a file that cannot be read
\* raises, and the except clause returns False
ClipLoad ==
    /\ cpc = "idle"
    /\ IF perimeter_file.kind = "spatial" /\ dataset_file.kind = "spatial"
       THEN /\ perimeter_crs' = perimeter_file.crs
            /\ dataset_crs' = dataset_file.crs
            /\ cpc' = "loaded"
            /\ UNCHANGED clip_returned
       ELSE /\ cpc' = "returned"
            /\ clip_returned' = FALSE
            /\ UNCHANGED <<perimeter_crs, dataset_crs>>
    /\ UNCHANGED <<clip_call, dataset_file, perimeter_file, reprojected,
                   clip_output>>
    /\ UNCHANGED notClip

\* clip_raster: if perimeter.crs != src.crs: perimeter = perimeter.to_crs(src.crs)
ClipRasterAlign ==
    /\ cpc = "loaded"
    /\ clip_call.op = "clip_raster"
    /\ IF perimeter_crs = dataset_crs
       THEN /\ cpc' = "aligned"
            /\ UNCHANGED <<perimeter_crs, reprojected, clip_returned>>
       ELSE IF ToCrsRaises(perimeter_crs, dataset_crs)
       THEN /\ cpc' = "returned"
            /\ clip_returned' = FALSE
            /\ UNCHANGED <<perimeter_crs, reprojected>>
       ELSE /\ perimeter_crs' = dataset_crs
            /\ reprojected' = reprojected \cup {"perimeter"}
            /\ cpc' = "aligned"
            /\ UNCHANGED clip_returned
    /\ UNCHANGED <<clip_call, dataset_file, perimeter_file, dataset_crs,
                   clip_output>>
    /\ UNCHANGED notClip

\* clip_vector: if vector_data.crs != perimeter.crs:
\*     vector_data = vector_data.to_crs(perimeter.crs)
ClipVectorAlign ==
    /\ cpc = "loaded"
    /\ clip_call.op = "clip_vector"
    /\ IF dataset_crs = perimeter_crs
       THEN /\ cpc' = "aligned"
            /\ UNCHANGED <<dataset_crs, reprojected, clip_returned>>
       ELSE IF ToCrsRaises(dataset_crs, perimeter_crs)
       THEN /\ cpc' = "returned"
            /\ clip_returned' = FALSE
            /\ UNCHANGED <<dataset_crs, reprojected>>
       ELSE /\ dataset_crs' = perimeter_crs
            /\ reprojected' = reprojected \cup {"dataset"}
            /\ cpc' = "aligned"
            /\ UNCHANGED clip_returned
    /\ UNCHANGED <<clip_call, dataset_file, perimeter_file, perimeter_crs,
                   clip_output>>
    /\ UNCHANGED notClip

\* the clip (mask / gpd.clip) and the write of the output, which carries the
\* CRS of the dataset as the call holds it (src.meta, clipped.crs); either may
\* raise
ClipAndWrite ==
    /\ cpc = "aligned"
    /\ \/ /\ clip_output' = {[crs |-> dataset_crs]}
          /\ clip_returned' = TRUE
       \/ /\ clip_returned' = FALSE
          /\ UNCHANGED clip_output
    /\ cpc' = "returned"
    /\ UNCHANGED <<clip_call, dataset_file, perimeter_file, dataset_crs,
                   perimeter_crs, reprojected>>
    /\ UNCHANGED notClip

ClipNext ==
    \/ ClipLoad
    \/ ClipRasterAlign
    \/ ClipVectorAlign
    \/ ClipAndWrite

(***************************************************************************)
(* Hazard classification: src/src/visualization/raster_generator.py        *)
(* A probability is counted in hundredths (25 is 0.25); a cell holds one   *)
(* number ({25}) or NaN ({}).                                              *)
(***************************************************************************)
NaN == {}

\* np.isnan(data)
IsNan(x) == x = NaN

\* self.thresholds.values(), in insertion order: low, moderate, high, very_high
Thresholds ==
    <<[low |-> 0, high |-> 25], [low |-> 25, high |-> 50],
      [low |-> 50, high |-> 75], [low |-> 75, high |-> 100]>>

\* a mask that leaves the lower edge of a band out
InBandAboveLow(x, band) ==
    \E p \in x : p > band.low /\ p < band.high

\* mask = (data >= low) & (data < high); a comparison with NaN is False
InBand(x, band) ==
    \E p \in x : p >= band.low /\ p < band.high

\* np.zeros_like(data, dtype=np.uint8), then classified[np.isnan(data)] = 0
ZerosLike(data) == [k \in DOMAIN data |-> 0]

NanToZero(array, data) ==
    [k \in DOMAIN array |-> IF IsNan(data[k]) THEN 0 ELSE array[k]]

\* classified[mask] = level
AssignLevel(array, data, level) ==
    [k \in DOMAIN array |->
        IF InBand(data[k], Thresholds[level]) THEN level ELSE array[k]]

\* the values a cell of the probability raster may hold
CellValues ==
    {NaN} \cup {{p} : p \in {-10, 0, 10, 25, 40, 50, 60, 75, 90, 100, 110}}

ProbabilityRasters ==
    UNION {[1..n -> CellValues] : n \in 1..MaxCells}

HazardInit ==
    /\ probability_raster \in {{}} \cup {{r} : r \in ProbabilityRasters}
    /\ hz_pc = "idle"
    /\ hz_data = <<>>
    /\ classified = <<>>
    /\ hz_level = 1
    /\ hz_output = {}
    /\ hz_returned = "none"

HazardIdle ==
    /\ probability_raster = {}
    /\ hz_pc = "idle"
    /\ hz_data = <<>>
    /\ classified = <<>>
    /\ hz_level = 1
    /\ hz_output = {}
    /\ hz_returned = "none"

\* rasterio.open(probability_raster_path) and src.read(1), then the zero array;
\* a missing or unreadable raster raises, and the call returns False
HazardRead ==
    /\ hz_pc = "idle"
    /\ \/ \E r \in probability_raster :
            /\ hz_data' = r
            /\ classified' = NanToZero(ZerosLike(r), r)
            /\ hz_level' = 1
            /\ hz_pc' = "thresholds"
            /\ UNCHANGED hz_returned
       \/ /\ hz_pc' = "returned"
          /\ hz_returned' = FALSE
          /\ UNCHANGED <<hz_data, classified, hz_level>>
    /\ UNCHANGED <<probability_raster, hz_output>>
    /\ UNCHANGED notHazard

\* one turn of the loop over the thresholds
HazardApplyThreshold ==
    /\ hz_pc = "thresholds"
    /\ hz_level <= Len(Thresholds)
    /\ classified' = AssignLevel(classified, hz_data, hz_level)
    /\ hz_level' = hz_level + 1
    /\ UNCHANGED <<probability_raster, hz_pc, hz_data, hz_output, hz_returned>>
    /\ UNCHANGED notHazard

\* the loop is over: rasterio.open(output_path, 'w') and dst.write(classified, 1),
\* which either write the raster or raise
HazardWrite ==
    /\ hz_pc = "thresholds"
    /\ hz_level > Len(Thresholds)
    /\ \/ /\ hz_output' = {classified}
          /\ hz_returned' = TRUE
       \/ /\ hz_returned' = FALSE
          /\ UNCHANGED hz_output
    /\ hz_pc' = "returned"
    /\ UNCHANGED <<probability_raster, hz_data, classified, hz_level>>
    /\ UNCHANGED notHazard

HazardNext ==
    \/ HazardRead
    \/ HazardApplyThreshold
    \/ HazardWrite

(***************************************************************************)
(* Project initialisation: src/src/wildcat_automation.py                   *)
(* A line of config.py is a sequence of pieces; the piece "# Inputs" is    *)
(* the marker text.  A project directory is named by the fire name it was  *)
(* joined from, the project folder being the same for every call.          *)
(***************************************************************************)
InputsMarker == "# Inputs"

\* "# Inputs" in line
HasMarker(line) == \E k \in DOMAIN line : line[k] = InputsMarker

\* a search that takes the last line containing the marker
InputsIndexOfLast(config_lines) ==
    LET hits == {i \in DOMAIN config_lines : HasMarker(config_lines[i])} IN
    IF hits = {} THEN {} ELSE {CHOOSE i \in hits : \A j \in hits : j <= i}

\* next(i for i, line in enumerate(config_lines) if "# Inputs" in line):
\* the first such index, none ({}) when next() raises StopIteration
InputsIndex(config_lines) ==
    LET hits == {i \in DOMAIN config_lines : HasMarker(config_lines[i])} IN
    IF hits = {} THEN {} ELSE {CHOOSE i \in hits : \A j \in hits : i <= j}

\* os.path.join(project_folder, fire_name)
ProjectDir(fire_name) == fire_name

\* year = fire_name.split('_')[0]
YearUsed(fire_name) == BeforeFirst(fire_name, "_")

\* os.path.exists(severity_path) for mtbs_CA_{year}.tif
SeverityExists(year) == year \in severity_years

\* the severity line, or the comment that stands for it
SeverityLine(year) ==
    IF SeverityExists(year)
    THEN <<"severity", "=", "mtbs_CA_">> \o year \o <<".tif">>
    ELSE <<"#", "severity", "=", "None">>

\* custom_config, line by line: it starts with a newline, which ends the marker
\* line or leaves an empty line after it
CustomConfig(paths, year) ==
    <<  <<>>,
        <<"#", "Fire-specific inputs">>,
        <<"dem", "=">> \o paths.dem,
        <<"perimeter", "=">> \o paths.perimeter,
        <<"dnbr", "=">> \o paths.dnbr,
        <<>>,
        <<"#", "Shared FULL datasets">>,
        <<"kf", "=", "soil">>,
        <<"evt", "=", "evt">>,
        SeverityLine(year),
        <<>>,
        <<"#", "Soil data configuration">>,
        <<"kf_field", "=", "KFFACT">>  >>

\* an insertion that puts the block before the marker line
InsertedBefore(config_lines, inputs_index, block) ==
    SubSeq(config_lines, 1, inputs_index - 1) \o block
        \o SubSeq(config_lines, inputs_index, Len(config_lines))

\* config_lines.insert(inputs_index + 1, custom_config), then f.writelines
Inserted(config_lines, inputs_index, block) ==
    SubSeq(config_lines, 1, inputs_index) \o block
        \o SubSeq(config_lines, inputs_index + 1, Len(config_lines))

\* _find_fire_files / _check_fire_files: the paths found under the fire folder
FireDataOf(year, folder) ==
    [dem |-> year \o <<"/">> \o folder \o <<"/", "dem.tif">>,
     perimeter |-> year \o <<"/">> \o folder \o <<"/", "burn_bndy.shp">>,
     dnbr |-> year \o <<"/">> \o folder \o <<"/", "dnbr.tif">>,
     folder |-> year \o <<"/">> \o folder]

\* fire_name = f"{year_folder.name}_{fire_folder.name}", the inventory key that
\* initialize_all_projects passes on
InventoryFireName(year, folder) == year \o <<"_">> \o folder

\* process_single_fire passes its fire_name argument, the folder name, on
ProcessFireName(year, folder) == folder

FireNameVia(via, year, folder) ==
    IF via = "initialize_all_projects" THEN InventoryFireName(year, folder)
    ELSE ProcessFireName(year, folder)

\* the lines a generated config may hold: one with the marker text in it, one
\* without
ConfigLines == {<<"x", InputsMarker>>, <<"z", "=", "1">>}

DefaultConfigs == UNION {[1..n -> ConfigLines] : n \in 0..MaxConfigLines}

ProjectYears == {<<"1">>, <<"2">>}

ProjectFolders == {<<"a">>, <<"2", "_", "a">>}

NoCall == [via |-> "none"]

ProjectInit ==
    /\ default_config \in DefaultConfigs
    /\ severity_years \in SUBSET {<<"2">>}
    /\ root_years = EmptyMap
    /\ project_dirs = EmptyMap
    /\ ppc = "idle"
    /\ cur_call = NoCall
    /\ init_log = <<>>
    /\ p_args = NoCall
    /\ all_fires = <<>>
    /\ p_idx = 1
    /\ p_result = NoCall
    /\ p_results = EmptyMap
    /\ assess_log = <<>>
    /\ p_returned = "none"

ProjectIdle ==
    /\ default_config = <<>>
    /\ severity_years = {}
    /\ root_years = EmptyMap
    /\ project_dirs = EmptyMap
    /\ ppc = "idle"
    /\ cur_call = NoCall
    /\ init_log = <<>>
    /\ p_args = NoCall
    /\ all_fires = <<>>
    /\ p_idx = 1
    /\ p_result = NoCall
    /\ p_results = EmptyMap
    /\ assess_log = <<>>
    /\ p_returned = "none"

\* initialize_single_project is entered, from initialize_all_projects with an
\* inventory key or from process_single_fire with a folder name
EnterInitialize(via, year, folder) ==
    /\ cur_call' = [via |-> via, year |-> year, folder |-> folder,
                    fire_name |-> FireNameVia(via, year, folder),
                    fire_data |-> FireDataOf(year, folder),
                    project_dir |-> ProjectDir(FireNameVia(via, year, folder))]
    /\ ppc' = "tool_initialize"

\* a caller outside batch_process makes the call
CallInitialize ==
    /\ ppc \in {"idle", "initialized"}
    /\ Len(init_log) < MaxInitCalls
    /\ \E via \in {"initialize_all_projects", "process_single_fire"},
          year \in ProjectYears, folder \in ProjectFolders :
         EnterInitialize(via, year, folder)
    /\ UNCHANGED <<default_config, severity_years, root_years, project_dirs,
                   init_log, p_args, all_fires, p_idx, p_result, p_results,
                   assess_log, p_returned>>
    /\ UNCHANGED notProject

InitReturn(project_dir, success, generated, year, config) ==
    \* the call returns: what it was given, what the tool generated (none: {}),
    \* the year it looked the severity raster up for, config.py as it is left
    Append(init_log,
           [via |-> cur_call.via, year |-> cur_call.year,
            folder |-> cur_call.folder, fire_name |-> cur_call.fire_name,
            fire_data |-> cur_call.fire_data,
            dir |-> cur_call.project_dir, generated |-> generated,
            year_used |-> year, config |-> config,
            returned |-> [project_dir |-> project_dir, success |-> success]])

\* self.wildcat.initialize(project_dir): the external tool writes its default
\* config.py into the directory, or raises and the call returns (None, False)
ToolInitialize ==
    /\ ppc = "tool_initialize"
    /\ \/ /\ project_dirs' = Put(project_dirs, cur_call.project_dir, default_config)
          /\ ppc' = "patch_config"
          /\ UNCHANGED init_log
       \/ /\ init_log' = InitReturn({}, FALSE, {}, {}, {})
          /\ ppc' = "initialized"
          /\ UNCHANGED project_dirs
    /\ UNCHANGED <<default_config, severity_years, root_years, cur_call, p_args,
                   all_fires, p_idx, p_result, p_results, assess_log, p_returned>>
    /\ UNCHANGED notProject

\* the rest of the try block: read config.py, find the marker, build the block,
\* insert it, write the file, size the fire folder, return (project_dir, True);
\* without a marker line next() raises and the call returns (None, False)
PatchConfig ==
    /\ ppc = "patch_config"
    /\ LET config_lines == project_dirs[cur_call.project_dir]
           year == YearUsed(cur_call.fire_name)
       IN
       IF InputsIndex(config_lines) = {}
       THEN /\ init_log' = InitReturn({}, FALSE, {config_lines}, {year},
                                      {config_lines})
            /\ UNCHANGED project_dirs
       ELSE \E inputs_index \in InputsIndex(config_lines) :
               /\ project_dirs' =
                    Put(project_dirs, cur_call.project_dir,
                        Inserted(config_lines, inputs_index,
                                 CustomConfig(cur_call.fire_data, year)))
               /\ init_log' = InitReturn({cur_call.project_dir}, TRUE,
                                         {config_lines}, {year},
                                         {project_dirs'[cur_call.project_dir]})
    /\ ppc' = "initialized"
    /\ UNCHANGED <<default_config, severity_years, root_years, cur_call, p_args,
                   all_fires, p_idx, p_result, p_results, assess_log, p_returned>>
    /\ UNCHANGED notProject

ProjectNext ==
    \/ CallInitialize
    \/ ToolInitialize
    \/ PatchConfig

(***************************************************************************)
(* batch_process and process_single_fire: src/src/wildcat_automation.py    *)
(***************************************************************************)
\* fire_key = f"{year}_{fire_name}"
ResultKey(year, fire_name) == year \o <<"_">> \o fire_name

\* fire_folder.is_dir() and not fire_folder.name.startswith('.')
IsProcessedFolder(entry) == entry.is_dir /\ Head(entry.name) # "."

\* the entries of one year folder that batch_process takes, in listing order
RECURSIVE FiresOfYear(_, _)
FiresOfYear(year, listing) ==
    IF listing = <<>> THEN <<>>
    ELSE (IF IsProcessedFolder(Head(listing)) THEN <<<<year, Head(listing).name>>>>
          ELSE <<>>)
            \o FiresOfYear(year, Tail(listing))

\* for year in years: if year_folder.exists(): ... all_fires.append(...)
RECURSIVE CollectFires(_)
CollectFires(years) ==
    IF years = <<>> THEN <<>>
    ELSE (IF Head(years) \in DOMAIN root_years
          THEN FiresOfYear(Head(years), root_years[Head(years)])
          ELSE <<>>)
            \o CollectFires(Tail(years))

\* if max_fires: all_fires = all_fires[:max_fires]; None and 0 are both falsy
Limited(fires, max_fires) ==
    IF max_fires = {} \/ max_fires = {0} THEN fires
    ELSE LET m == CHOOSE m \in max_fires : TRUE IN
         SubSeq(fires, 1, IF m < Len(fires) THEN m ELSE Len(fires))

\* all(fire_data.values()) after _find_fire_files
HasRequiredFiles(year, folder) ==
    \E k \in DOMAIN root_years[year] :
        /\ root_years[year][k].name = folder
        /\ root_years[year][k].complete

\* the fire folders a year folder may hold: "a" with its three files, "b" with
\* one missing, a hidden folder
FolderA == [name |-> <<"a">>, is_dir |-> TRUE, complete |-> TRUE]

FolderB == [name |-> <<"b">>, is_dir |-> TRUE, complete |-> FALSE]

HiddenFolder == [name |-> <<".", "g">>, is_dir |-> TRUE, complete |-> FALSE]

YearListings == {<<FolderA>>, <<HiddenFolder, FolderA>>, <<FolderA, FolderB>>}

YearLists == {<<<<"1">>>>, <<<<"1">>, <<"2">>>>, <<<<"2">>, <<"1">>>>}

\* the configs the installed tool may generate: with the marker line, without
ProcessConfigs == {<< <<"x", InputsMarker>> >>, << <<"z", "=", "1">> >>}

ProcessInit ==
    /\ default_config \in ProcessConfigs
    /\ severity_years = {<<"2">>}
    /\ \E present \in SUBSET ProjectYears : root_years \in [present -> YearListings]
    /\ project_dirs = EmptyMap
    /\ ppc = "idle"
    /\ cur_call = NoCall
    /\ init_log = <<>>
    /\ \E years \in YearLists, generate_rasters \in BOOLEAN,
          max_fires \in {{}} \cup {{m} : m \in 0..MaxFiresArg} :
         p_args = [years |-> years, max_fires |-> max_fires,
                   generate_rasters |-> generate_rasters]
    /\ all_fires = <<>>
    /\ p_idx = 1
    /\ p_result = NoCall
    /\ p_results = EmptyMap
    /\ assess_log = <<>>
    /\ p_returned = "none"

\* batch_process is called: collect the fires, limit them, enter the loop
BatchProcess ==
    /\ ppc = "idle"
    /\ p_args # NoCall
    /\ all_fires' = Limited(CollectFires(p_args.years), p_args.max_fires)
    /\ p_idx' = 1
    /\ p_results' = EmptyMap
    /\ ppc' = "process_loop"
    /\ UNCHANGED <<default_config, severity_years, root_years, project_dirs,
                   cur_call, init_log, p_args, p_result, assess_log, p_returned>>
    /\ UNCHANGED notProject

\* results[fire_key] = process_single_fire(...), and on to the next pair
StoreResult(result) ==
    /\ p_results' = Put(p_results,
                        ResultKey(all_fires[p_idx][1], all_fires[p_idx][2]), result)
    /\ p_idx' = p_idx + 1
    /\ ppc' = "process_loop"

\* process_single_fire is entered: the folder and its files are looked for, then
\* initialize_single_project is called with the folder name
ProcessSingleFire ==
    /\ ppc = "process_loop"
    /\ p_idx <= Len(all_fires)
    /\ LET year == all_fires[p_idx][1]
           folder == all_fires[p_idx][2]
       IN
       IF HasRequiredFiles(year, folder)
       THEN /\ EnterInitialize("process_single_fire", year, folder)
            /\ UNCHANGED <<p_idx, p_results>>
       ELSE /\ StoreResult([success |-> FALSE, error |-> "Missing required files"])
            /\ UNCHANGED cur_call
    /\ UNCHANGED <<default_config, severity_years, root_years, project_dirs,
                   init_log, p_args, all_fires, p_result, assess_log, p_returned>>
    /\ UNCHANGED notProject

\* initialize_single_project returned: if not init_success the fire is done
ProcessAfterInitialize ==
    /\ ppc = "initialized"
    /\ p_args # NoCall
    /\ IF init_log[Len(init_log)].returned.success
       THEN /\ ppc' = "assess"
            /\ UNCHANGED <<p_idx, p_results>>
       ELSE StoreResult([success |-> FALSE, error |-> "Project initialization failed"])
    /\ UNCHANGED <<default_config, severity_years, root_years, project_dirs,
                   cur_call, init_log, p_args, all_fires, p_result, assess_log,
                   p_returned>>
    /\ UNCHANGED notProject

\* run_single_assessment(fire_name, project_info): the external model runs in
\* project_dir and the record of the run comes back
ProcessAssess ==
    /\ ppc = "assess"
    /\ assess_log' = Append(assess_log,
                            [year |-> cur_call.year, folder |-> cur_call.folder,
                             dir |-> cur_call.project_dir])
    /\ \E out \in Outcomes :
         IF out = "ok"
         THEN IF p_args.generate_rasters
              THEN /\ p_result' = SuccessRecord(TRUE, 1)
                   /\ ppc' = "rasters"
                   /\ UNCHANGED <<p_idx, p_results>>
              ELSE /\ StoreResult(SuccessRecord(TRUE, 1))
                   /\ UNCHANGED p_result
         ELSE /\ StoreResult(FailureRecord(out, 1))
              /\ UNCHANGED p_result
    /\ UNCHANGED <<default_config, severity_years, root_years, project_dirs,
                   cur_call, init_log, p_args, all_fires, p_returned>>
    /\ UNCHANGED notProject

\* generate_probability_rasters, whose success flag is added to the result
ProcessRasters ==
    /\ ppc = "rasters"
    /\ \E raster_generated \in BOOLEAN :
         StoreResult([success |-> p_result.success,
                      output_files |-> p_result.output_files,
                      file_size_mb |-> p_result.file_size_mb,
                      raster_generated |-> raster_generated])
    /\ p_result' = NoCall
    /\ UNCHANGED <<default_config, severity_years, root_years, project_dirs,
                   cur_call, init_log, p_args, all_fires, assess_log, p_returned>>
    /\ UNCHANGED notProject

\* the loop is over: return results
ProcessReturn ==
    /\ ppc = "process_loop"
    /\ p_idx > Len(all_fires)
    /\ p_returned' = p_results
    /\ ppc' = "processed"
    /\ UNCHANGED <<default_config, severity_years, root_years, project_dirs,
                   cur_call, init_log, p_args, all_fires, p_idx, p_result,
                   p_results, assess_log>>
    /\ UNCHANGED notProject

ProcessNext ==
    \/ BatchProcess
    \/ ProcessSingleFire
    \/ ToolInitialize
    \/ PatchConfig
    \/ ProcessAfterInitialize
    \/ ProcessAssess
    \/ ProcessRasters
    \/ ProcessReturn

(***************************************************************************)
(* Specifications.                                                         *)
(***************************************************************************)

InitBatch ==
    BatchInit /\ GeeIdle /\ AssetIdle /\ ExtractIdle /\ InventoryIdle
        /\ ValidateIdle /\ ClipIdle /\ HazardIdle /\ ProjectIdle

SpecBatch == InitBatch /\ [][BatchNext]_vars

InitGee ==
    GeeInit /\ BatchIdle /\ AssetIdle /\ ExtractIdle /\ InventoryIdle
        /\ ValidateIdle /\ ClipIdle /\ HazardIdle /\ ProjectIdle

SpecGee == InitGee /\ [][GeeNext]_vars

InitUpload ==
    UploadInit /\ BatchIdle /\ AssetIdle /\ ExtractIdle /\ InventoryIdle
        /\ ValidateIdle /\ ClipIdle /\ HazardIdle /\ ProjectIdle

SpecUpload == InitUpload /\ [][UploadNext]_vars

InitAsset ==
    AssetInit /\ BatchIdle /\ GeeIdle /\ ExtractIdle /\ InventoryIdle
        /\ ValidateIdle /\ ClipIdle /\ HazardIdle /\ ProjectIdle

SpecAsset == InitAsset /\ [][AssetNext]_vars

InitExtract ==
    ExtractInit /\ BatchIdle /\ GeeIdle /\ AssetIdle /\ InventoryIdle
        /\ ValidateIdle /\ ClipIdle /\ HazardIdle /\ ProjectIdle

SpecExtract == InitExtract /\ [][ExtractNext]_vars

InitInventory ==
    InventoryInit /\ BatchIdle /\ GeeIdle /\ AssetIdle /\ ExtractIdle
        /\ ValidateIdle /\ ClipIdle /\ HazardIdle /\ ProjectIdle

SpecInventory == InitInventory /\ [][InventoryNext]_vars

InitValidate ==
    ValidateInit /\ BatchIdle /\ GeeIdle /\ AssetIdle /\ ExtractIdle
        /\ InventoryIdle /\ ClipIdle /\ HazardIdle /\ ProjectIdle

SpecValidate == InitValidate /\ [][ValidateNext]_vars

InitClip ==
    ClipInit /\ BatchIdle /\ GeeIdle /\ AssetIdle /\ ExtractIdle
        /\ InventoryIdle /\ ValidateIdle /\ HazardIdle /\ ProjectIdle

SpecClip == InitClip /\ [][ClipNext]_vars

InitHazard ==
    HazardInit /\ BatchIdle /\ GeeIdle /\ AssetIdle /\ ExtractIdle
        /\ InventoryIdle /\ ValidateIdle /\ ClipIdle /\ ProjectIdle

SpecHazard == InitHazard /\ [][HazardNext]_vars

InitProject ==
    ProjectInit /\ BatchIdle /\ GeeIdle /\ AssetIdle /\ ExtractIdle
        /\ InventoryIdle /\ ValidateIdle /\ ClipIdle /\ HazardIdle

SpecProject == InitProject /\ [][ProjectNext]_vars

InitProcess ==
    ProcessInit /\ BatchIdle /\ GeeIdle /\ AssetIdle /\ ExtractIdle
        /\ InventoryIdle /\ ValidateIdle /\ ClipIdle /\ HazardIdle

SpecProcess == InitProcess /\ [][ProcessNext]_vars

(***************************************************************************)
(* Claims about the batch assessment driver, checked under SpecBatch.     *)
(***************************************************************************)
CallsOfFire(f) == LET Mine(c) == c.fire = f IN SelectSeq(calls, Mine)

HasCall(f) == \E k \in DOMAIN calls : calls[k].fire = f

\* a fire the skip-existing check passes over: skip_existing is set and its
\* exports/ held a .shp when the batch was called
SkippedByInput(f) == skip_existing /\ shp_at_call[f]

\* C1: fires are assessed one at a time in ascending order of fire_size_mb:
\* no call for a larger fire precedes a call for a smaller one, the calls of two
\* fires never interleave, and when a larger fire gets its first call every
\* smaller non-skipped fire already has its result.
C1_AscendingSizeOrder ==
    /\ \A i, j \in DOMAIN calls :
         i < j => SizeKey(calls[i].fire) <= SizeKey(calls[j].fire)
    /\ \A i, j, k \in DOMAIN calls :
         (i < k /\ k < j /\ calls[i].fire = calls[j].fire)
            => calls[k].fire = calls[i].fire
    /\ \A a, b \in Fires :
         (SizeKey(a) < SizeKey(b) /\ ~SkippedByInput(a) /\ HasCall(b))
            => a \in DOMAIN results

\* two fires given largest-first were both assessed, the smaller one first
C1_Witness ==
    /\ pc = "returned"
    /\ SizeKey(1) > SizeKey(2)
    /\ Len(calls) >= 2
    /\ calls[1].fire = 2
    /\ calls[Len(calls)].fire = 1

\* C2: for each fire the stages are called in the order preprocess, assess,
\* export(Shapefile), export(GeoJSON); a stage is called only after every
\* earlier stage returned; once a stage raises, the fire's result is a failure
\* record and it is that fire's last call.
C2_StagesInOrder ==
    \A f \in Fires :
        LET cs == CallsOfFire(f) IN
        /\ Len(cs) <= Len(StageOrder)
        /\ \A k \in 1..Len(cs) : cs[k].stage = StageOrder[k]
        /\ \A k \in 1..(Len(cs) - 1) : cs[k].outcome = "ok"
        /\ (Len(cs) > 0 /\ cs[Len(cs)].outcome # "ok")
              => /\ f \in DOMAIN results
                 /\ results[f].success = FALSE
        /\ (f \in DOMAIN results /\ results[f].success)
              => /\ Len(cs) = Len(StageOrder)
                 /\ cs[Len(cs)].outcome = "ok"

\* a fire whose assess stage raised after preprocess returned, and the batch
\* has gone on past it
C2_Witness ==
    \E f \in Fires :
        LET cs == CallsOfFire(f) IN
        /\ Len(cs) = 2
        /\ cs[2].stage = "assess"
        /\ cs[2].outcome # "ok"
        /\ pc = "returned"
        /\ \E g \in Fires : g # f /\ g \in DOMAIN results /\ results[g].success

\* C3: when the call has ended, a fire whose exports/ held a .shp (with
\* skip_existing set) got no external-model call and no entry in the results;
\* every other fire of the input got exactly one assessment and one entry.
C3_SkipExistingOnly ==
    pc \in {"returned", "raised"} =>
        \A f \in Fires :
            IF SkippedByInput(f)
            THEN ~HasCall(f) /\ f \notin DOMAIN results
            ELSE /\ f \in DOMAIN results
                 /\ Len(CallsOfFire(f)) >= 1

\* C4: no exception aborts a batch: the call never ends by raising, and what it
\* returns holds an entry for every fire that was not skipped.
C4_NoExceptionAbortsBatch ==
    /\ pc # "raised"
    /\ pc = "returned" =>
         \A f \in Fires : ~SkippedByInput(f) => f \in DOMAIN returned

\* C7: an exception raised by a stage is recorded in the fire's failure record
\* under its type name ('MemoryError' for MemoryError), memory_errors counts
\* exactly the fires whose stage raised MemoryError and other_errors those
\* whose stage raised anything else, and no stage is called twice for a fire.
RaisedIn(f) == {calls[k].outcome : k \in {n \in DOMAIN calls : calls[n].fire = f}} \ {"ok"}

C7_MemoryErrorClassified ==
    /\ \A k \in DOMAIN calls :
         calls[k].outcome # "ok" =>
            /\ calls[k].fire \in DOMAIN results
            /\ results[calls[k].fire].success = FALSE
            /\ results[calls[k].fire].error = calls[k].outcome
    /\ memory_errors = Cardinality({f \in Fires : "MemoryError" \in RaisedIn(f)})
    /\ other_errors = Cardinality({f \in Fires : RaisedIn(f) \ {"MemoryError"} # {}})
    /\ success_count =
         Cardinality({f \in DOMAIN results : results[f].success})
    /\ \A i, j \in DOMAIN calls :
         (calls[i].fire = calls[j].fire /\ calls[i].stage = calls[j].stage) => i = j

\* one fire ran out of memory in assess, another failed otherwise, and the
\* batch returned
C7_Witness ==
    /\ pc = "returned"
    /\ memory_errors = 1
    /\ other_errors = 1
    /\ \E k \in DOMAIN calls :
         calls[k].stage = "assess" /\ calls[k].outcome = "MemoryError"

(***************************************************************************)
(* Claims about the uploader and the downloader, checked under SpecGee     *)
(* and SpecAsset.                                                          *)
(***************************************************************************)
\* C5: no DEM download for a fire reads the fire's asset before the export
\* task that creates it has finished, however long the task takes.
C5_DownloadAfterUploadFinished ==
    \A n \in DOMAIN down_started_at :
        \A t \in down_started_at[n] :
            \A k \in DOMAIN export_tasks :
                export_tasks[k].fire_name = n
                    => export_tasks[k].started_at + export_tasks[k].duration <= t

Submitted == {n \in DOMAIN fire_inventory : fire_inventory[n].has_perimeter}

\* what the remote side answered to the fire's own calls decides its outcome
UploadAnsweredWell(n) == up_env[n] \in {<<"found">>, <<"EEException", "started">>}

DownloadAnsweredWell(n) == down_env[n] = <<"url", "ok">>

\* C6: each submitted fire is counted exactly once: when a batch has returned,
\* successful + failed is the number of fires submitted, successful counts
\* exactly the fires whose own calls were answered well, and a finished task's
\* success flag depends on the answers to its own calls only.
C6_EachFireCountedOnce ==
    /\ gpc \in {"uploaded", "download_collect", "downloaded"} =>
         /\ upload_results.successful + upload_results.failed = Cardinality(Submitted)
         /\ upload_results.successful =
              Cardinality({n \in Submitted : UploadAnsweredWell(n)})
         /\ upload_results.tasks = Submitted
    /\ gpc = "downloaded" =>
         /\ download_results.successful + download_results.failed
              = Cardinality(DOMAIN fire_inventory)
         /\ download_results.successful =
              Cardinality({n \in DOMAIN fire_inventory : DownloadAnsweredWell(n)})
         /\ download_results.downloads = DOMAIN fire_inventory
    /\ \A n \in DOMAIN fire_inventory :
         /\ up_future[n] \in {"done", "collected"}
              => up_result[n].success = UploadAnsweredWell(n)
         /\ down_future[n] \in {"done", "collected"}
              => down_result[n].success = DownloadAnsweredWell(n)

\* both batches returned for two fires handled by two workers, with one
\* success and one failure in each
C6_Witness ==
    /\ gpc = "downloaded"
    /\ max_parallel = 2
    /\ Cardinality(Submitted) = 2
    /\ upload_results.successful = 1
    /\ upload_results.failed = 1
    /\ download_results.successful = 1
    /\ download_results.failed = 1

\* C8: when the remote store reports the fire's asset id as existing, the call
\* returns at once, with success, status 'already_exists' and no task id, and
\* starts no export task; no export task is ever started to an asset the store
\* held.
C8_NoUploadOfExistingAsset ==
    /\ \A n \in DOMAIN fire_inventory :
         (up_env[n] # <<>> /\ up_env[n][1] = "found") =>
            /\ up_future[n] \in {"done", "collected"}
            /\ up_result[n] =
                 [success |-> TRUE,
                  asset_id |-> BatchUploadAssetId(GeeAssetPath, n),
                  status |-> "already_exists"]
            /\ \A k \in DOMAIN export_tasks : export_tasks[k].fire_name # n
    /\ \A k \in DOMAIN export_tasks : export_tasks[k].asset_id \notin asset_store

\* one fire's asset was reported as existing while another fire's upload
\* started an export task
C8_Witness ==
    /\ gpc = "uploaded"
    /\ \E n \in DOMAIN fire_inventory : up_env[n] = <<"found">>
    /\ Len(export_tasks) = 1

\* the identifier as the claim words it: base path / the text before the
\* first underscore / the name with capitals lowered and spaces and hyphens
\* turned into underscores
IsYearOf(y, name) ==
    /\ Len(y) <= Len(name)
    /\ SubSeq(name, 1, Len(y)) = y
    /\ \A k \in 1..Len(y) : y[k] # "_"
    /\ Len(y) < Len(name) => name[Len(y) + 1] = "_"

ClaimedAssetIds(base, name) ==
    {base \o <<"/">> \o y \o <<"/">>
        \o [k \in 1..Len(name) |->
              IF name[k] \in {" ", "-"} THEN "_"
              ELSE IF name[k] = "A" THEN "a"
              ELSE name[k]]
     : y \in {z \in TextsUpTo(NameAlphabet, Len(name)) : IsYearOf(z, name)}}

\* C9: the asset id the download batch reads from is the one the upload batch
\* wrote to, and both are base path / year / normalised fire name.
C9_SameAssetId ==
    /\ (written_id # {} /\ read_id # {}) => written_id = read_id
    /\ written_id # {} => written_id = ClaimedAssetIds(asset_base, asset_fire)
    /\ read_id # {} => read_id = ClaimedAssetIds(asset_base, asset_fire)

\* both ids were constructed for a name with a capital, a hyphen and an
\* underscore in it
C9_Witness ==
    /\ written_id # {}
    /\ read_id # {}
    /\ \E k \in DOMAIN asset_fire : asset_fire[k] = "A"
    /\ \E k \in DOMAIN asset_fire : asset_fire[k] = "-"
    /\ \E k \in DOMAIN asset_fire : asset_fire[k] = "_"

(***************************************************************************)
(* Claims about the archive extractor, checked under SpecExtract.          *)
(***************************************************************************)
\* the archive's metadata yields a fire name and a date (neither empty)
YieldsNameAndDate(stem) ==
    /\ zip_files[stem].kind = "supplinf"
    /\ zip_files[stem].name_line.kind = "value"
    /\ zip_files[stem].date_line.kind = "value"
    /\ Strip(zip_files[stem].name_line.text) # <<>>
    /\ Strip(zip_files[stem].date_line.text) # <<>>

FirstHyphen(s) ==
    CHOOSE k \in DOMAIN s : s[k] = "-" /\ \A j \in 1..(k - 1) : s[j] # "-"

\* the hyphen-separated parts of a text in reverse order, put together
RECURSIVE ReversedParts(_)
ReversedParts(s) ==
    IF \A k \in DOMAIN s : s[k] # "-" THEN s
    ELSE ReversedParts(SubSeq(s, FirstHyphen(s) + 1, Len(s)))
            \o SubSeq(s, 1, FirstHyphen(s) - 1)

\* the date part of the folder name: the date as the metadata gives it, its
\* spaces and commas dropped, its hyphen-separated parts in reverse order
ClaimedDate(stem) ==
    LET Kept(c) == c \notin {" ", ","} IN
    ReversedParts(SelectSeq(Strip(zip_files[stem].date_line.text), Kept))

\* sanitize(name) + '_' + the reversed date
ClaimedFolder(stem) ==
    LET name == Strip(zip_files[stem].name_line.text) IN
    [k \in 1..Len(name) |-> IF name[k] \in InvalidChars THEN "_" ELSE name[k]]
        \o <<"_">> \o ClaimedDate(stem)

\* C10 as stated: after extract_single_bundle, an archive whose metadata
\* yields both a fire name and a date has its folder named
\* sanitize(name) + '_' + reversed date parts; any other archive's folder
\* keeps the archive's stem.
C10_RenamedByNameAndDate ==
    \A k \in DOMAIN extract_log :
        LET e == extract_log[k] IN
        IF e.result.success /\ YieldsNameAndDate(e.stem)
        THEN /\ e.result.extracted_to = ClaimedFolder(e.stem)
             /\ ClaimedFolder(e.stem) \in e.after
        ELSE /\ e.stem \in e.after
             /\ e.result.success => e.result.extracted_to = e.stem

\* the new name is not empty in its date part and no entry of the year
\* folder (the freshly made stem folder included) has it
TargetWasFree(e) ==
    /\ ClaimedDate(e.stem) # <<>>
    /\ ClaimedFolder(e.stem) \notin (e.before \cup {e.stem})

\* C10 as amended: the folder is renamed to sanitize(name) + '_' + reversed
\* date parts exactly when the metadata yields both fields, the reversed date
\* is not empty and no entry of that name exists in the year folder; in every
\* other case the folder keeps the archive's stem.
C10_RenamedWhenTargetFree ==
    \A k \in DOMAIN extract_log :
        LET e == extract_log[k] IN
        IF e.result.success /\ YieldsNameAndDate(e.stem) /\ TargetWasFree(e)
        THEN /\ e.result.extracted_to = ClaimedFolder(e.stem)
             /\ ClaimedFolder(e.stem) \in e.after
             /\ e.stem \notin e.after
        ELSE /\ e.stem \in e.after
             /\ e.result.success => e.result.extracted_to = e.stem

\* an archive with name "a/" and date "1-2" was extracted and its folder
\* renamed to "a__21"
C10_Witness ==
    \E k \in DOMAIN extract_log :
        /\ extract_log[k].result.success
        /\ extract_log[k].result.extracted_to = <<"a", "_", "_", "2", "1">>
        /\ extract_log[k].result.fire_name = {<<"a", "/">>}
        /\ <<"a", "_", "_", "2", "1">> \in DOMAIN year_dir

\* a folder under the new name existed in the year folder before the call
TargetExisted(e) ==
    /\ YieldsNameAndDate(e.stem)
    /\ ClaimedFolder(e.stem) \in e.before

\* the call left the new extraction under the stem and said so
StayedUnderStem(e) ==
    /\ e.stem \in e.after
    /\ e.stem \in e.held_after[e.stem]
    /\ e.result.success
    /\ e.result.extracted_to = e.stem

\* C11 as stated: when a folder with the target name already exists in the
\* year folder, extract_single_bundle leaves that folder and its contents
\* untouched, the new extraction stays under the archive's stem and the record
\* has success = true with extracted_to naming the stem folder.
C11_ExistingTargetUntouched ==
    \A k \in DOMAIN extract_log :
        LET e == extract_log[k] IN
        TargetExisted(e) =>
            /\ ClaimedFolder(e.stem) \in e.after
            /\ e.held_after[ClaimedFolder(e.stem)]
                 = e.held_before[ClaimedFolder(e.stem)]
            /\ StayedUnderStem(e)

\* C11 as amended: the existing folder is left untouched when its name is not
\* the archive's own stem; when the target name is the stem itself, the
\* archive is extracted into that existing folder, next to what it held. In
\* both cases the extraction stays under the stem and the record says so.
C11_OtherExistingTargetUntouched ==
    \A k \in DOMAIN extract_log :
        LET e == extract_log[k]
            target == ClaimedFolder(e.stem)
        IN  TargetExisted(e) =>
            /\ target \in e.after
            /\ e.held_after[target] =
                 IF target = e.stem THEN e.held_before[target] \cup {e.stem}
                 ELSE e.held_before[target]
            /\ StayedUnderStem(e)

\* an archive was extracted while a folder of its new name, other than its
\* stem, existed: that folder still holds what it held
C11_Witness ==
    \E k \in DOMAIN extract_log :
        /\ TargetExisted(extract_log[k])
        /\ ClaimedDate(extract_log[k].stem) # <<>>
        /\ ClaimedFolder(extract_log[k].stem) # extract_log[k].stem
        /\ extract_log[k].held_after[ClaimedFolder(extract_log[k].stem)] = OldContent
        /\ extract_log[k].result.extracted_to = extract_log[k].stem

\* opening the archive raises
ExtractionRaises(stem) == zip_files[stem].kind = "corrupt"

\* parsing the metadata raises: no XML, or a line without a colon
ParsingRaises(stem) ==
    \/ zip_files[stem].kind = "unparsable"
    \/ /\ zip_files[stem].kind = "supplinf"
       /\ \/ zip_files[stem].name_line.kind = "no_colon"
          \/ zip_files[stem].date_line.kind = "no_colon"

\* every archive found is attempted once: the archives done and those still
\* to do list each archive once
EachArchiveOnce ==
    epc \in {"extracting", "returned"} =>
        LET order == [k \in 1..Len(extract_log) |-> extract_log[k].stem] \o all_zips
        IN  /\ Len(order) = Cardinality(DOMAIN zip_files)
            /\ {order[k] : k \in DOMAIN order} = DOMAIN zip_files

IsFailureDetail(result) ==
    ~result.success /\ DOMAIN result = {"success", "original", "error"}

\* C12 as stated: extract_all_bundles attempts every archive exactly once; an
\* archive whose extraction or parsing raises yields one {success: false,
\* error} detail and the next archive is still processed; on return
\* successful + failed = len(details) = number of archives found.
C12_RaisingArchiveIsFailure ==
    /\ EachArchiveOnce
    /\ \A k \in DOMAIN extract_log :
         (ExtractionRaises(extract_log[k].stem) \/ ParsingRaises(extract_log[k].stem))
             => IsFailureDetail(extract_log[k].result)
    /\ epc = "returned" =>
         /\ extract_results.successful + extract_results.failed
              = Len(extract_results.details)
         /\ Len(extract_results.details) = Cardinality(DOMAIN zip_files)

\* C12 as amended: every archive is attempted exactly once; an archive whose
\* extraction raises yields one {success: false, error} detail, an archive
\* whose metadata parsing raises yields a success detail that names the stem
\* folder and no fire name or date; on return failed is the number of archives
\* whose extraction raised and successful + failed = len(details) = number of
\* archives found.
C12_OnlyExtractionFailureIsFailure ==
    /\ EachArchiveOnce
    /\ \A k \in DOMAIN extract_log :
         LET e == extract_log[k] IN
         /\ ExtractionRaises(e.stem) => IsFailureDetail(e.result)
         /\ ~ExtractionRaises(e.stem) => e.result.success
         /\ ParsingRaises(e.stem) =>
              /\ e.result.extracted_to = e.stem
              /\ e.result.fire_name = {}
              /\ e.result.fire_date = {}
    /\ epc = "returned" =>
         /\ extract_results.details
              = [k \in 1..Len(extract_log) |-> extract_log[k].result]
         /\ extract_results.failed
              = Cardinality({z \in DOMAIN zip_files : ExtractionRaises(z)})
         /\ extract_results.successful + extract_results.failed
              = Len(extract_results.details)
         /\ Len(extract_results.details) = Cardinality(DOMAIN zip_files)

\* a run over two archives returned: the first could not be opened, the
\* second, with metadata that does not parse, was still extracted
C12_Witness ==
    /\ epc = "returned"
    /\ Len(extract_log) = 2
    /\ ExtractionRaises(extract_log[1].stem)
    /\ ParsingRaises(extract_log[2].stem)
    /\ extract_results.successful = 1
    /\ extract_results.failed = 1

Roles == {"perimeter", "dnbr", "dem", "metadata"}

\* the role a file is taken for: the first of perimeter, dNBR, DEM, metadata
\* whose word is in the lower-cased name and whose suffix the file has
RoleOf(f) ==
    IF ~f.is_file THEN "none"
    ELSE IF NameHas(f, "burn_bndy") /\ f.suffix = ".shp" THEN "perimeter"
    ELSE IF NameHas(f, "dnbr") /\ f.suffix = ".tif" THEN "dnbr"
    ELSE IF NameHas(f, "dem") /\ f.suffix = ".tif" THEN "dem"
    ELSE IF NameHas(f, "metadata") /\ f.suffix = ".xml" THEN "metadata"
    ELSE "none"

MatchesOf(entry, role) == {k \in DOMAIN entry.under : RoleOf(entry.under[k]) = role}

LastOf(S) == CHOOSE k \in S : \A j \in S : j <= k

RolePath(rec, role) ==
    CASE role = "perimeter" -> rec.found.perimeter_path
      [] role = "dnbr" -> rec.found.dnbr_path
      [] role = "dem" -> rec.found.dem_path
      [] role = "metadata" -> rec.found.metadata_path

RoleFlag(rec, role) ==
    CASE role = "perimeter" -> rec.found.has_perimeter
      [] role = "dnbr" -> rec.found.has_dnbr
      [] role = "dem" -> rec.found.has_dem
      [] role = "metadata" -> rec.found.has_metadata

\* C14: in a returned inventory, for every fire folder and every role some of
\* its files match, the record holds the path of the last matching file in
\* scan order and the role's has_* flag is true; the folder has exactly one
\* record.
C14_LastMatchWins ==
    \A i \in DOMAIN inventories :
    \A k \in DOMAIN root_tree :
        IsFireFolder(root_tree[k]) =>
            LET entry == root_tree[k]
                inv == inventories[i]
            IN  /\ Cardinality({key \in DOMAIN inv : inv[key].folder = entry.name}) = 1
                /\ FireKey(entry.name) \in DOMAIN inv
                /\ \A role \in Roles :
                     MatchesOf(entry, role) # {} =>
                        /\ RoleFlag(inv[FireKey(entry.name)], role)
                        /\ RolePath(inv[FireKey(entry.name)], role) =
                             {PathOf(entry.name,
                                     entry.under[LastOf(MatchesOf(entry, role))])}

\* an inventory was returned for a fire folder with two files of one role
C14_Witness ==
    /\ inventories # <<>>
    /\ \E k \in DOMAIN root_tree :
         /\ IsFireFolder(root_tree[k])
         /\ \E role \in Roles : Cardinality(MatchesOf(root_tree[k], role)) >= 2

(***************************************************************************)
(* Claims about the data validator, checked under SpecValidate.            *)
(***************************************************************************)
\* the component's result in results: none yet ({}) or one
SubResult(c) ==
    CASE c = "dem" -> v_results.dem
      [] c = "perimeter" -> v_results.perimeter
      [] c = "dnbr" -> v_results.dnbr

\* validate_fire_data is past the component's turn
PastTurnOf(c) ==
    CASE c = "dem" -> vpc \in {"perimeter", "dnbr", "crs", "returned"}
      [] c = "perimeter" -> vpc \in {"dnbr", "crs", "returned"}
      [] c = "dnbr" -> vpc \in {"crs", "returned"}

\* opening the file, or reading its first band, raises
ReadingRaises(file) ==
    \/ file.kind = "unreadable"
    \/ file.kind = "raster" /\ (~file.readable \/ file.count = 0)

\* C15: each of validate_dem, validate_perimeter, validate_dnbr returns a
\* result (it never raises) whose valid is true exactly when its issues list
\* is empty; a missing file and an exception while opening or reading become an
\* issue string in a result with valid = false.
C15_ValidIffNoIssues ==
    \A c \in Components :
        /\ (PastTurnOf(c) /\ fire_paths[c]) => SubResult(c) # {}
        /\ \A r \in SubResult(c) :
             /\ r.valid <=> r.issues = <<>>
             /\ disk[c].kind = "missing" =>
                  ~r.valid /\ r.issues = <<"File does not exist">>
             /\ ReadingRaises(disk[c]) =>
                  /\ ~r.valid
                  /\ r.issues # <<>>
                  /\ r.issues[Len(r.issues)] \in
                       {"Error reading DEM", "Error reading perimeter",
                        "Error reading dNBR"}

\* a dNBR file that cannot be opened got a result
C15_Witness ==
    /\ disk["dnbr"].kind = "unreadable"
    /\ \E r \in v_results.dnbr : r.issues = <<"Error reading dNBR">>

\* C16: a raster whose band count is not 1 is never reported valid by
\* validate_dem or validate_dnbr, whatever its CRS, nodata value and pixels
\* are, also when a later read of the file fails.
C16_NotOneBandNeverValid ==
    \A c \in {"dem", "dnbr"} :
        \A r \in SubResult(c) :
            (disk[c].kind = "raster" /\ disk[c].count # 1) => ~r.valid

\* a two-band DEM sound in every other respect got its result
C16_Witness ==
    /\ disk["dem"].kind = "raster"
    /\ disk["dem"].count = 2
    /\ disk["dem"].crs # {}
    /\ disk["dem"].nodata = {-1}
    /\ disk["dem"].data = <<5>>
    /\ disk["dem"].readable
    /\ \E r \in v_results.dem : r.issues = <<"Expected 1 band">>

\* the validated components whose file has a CRS, and the CRS values they have
WithDefinedCrs ==
    {c \in Components :
        /\ fire_paths[c]
        /\ disk[c].kind \in {"raster", "vector"}
        /\ disk[c].crs # {}}

DefinedCrsValues == UNION {disk[c].crs : c \in WithDefinedCrs}

AllGivenValid ==
    \A c \in Components :
        fire_paths[c] => SubResult(c) # {} /\ \A r \in SubResult(c) : r.valid

\* C18 as stated: when every component is individually valid and their CRS
\* values differ, validate_fire_data sets crs_match = false and leaves
\* fire_valid = true.
C18_MismatchDoesNotReject ==
    (vpc = "returned" /\ AllGivenValid /\ Cardinality(DefinedCrsValues) > 1) =>
        ~v_results.crs_match /\ v_results.fire_valid

\* C18 as amended: when every component is individually valid and their CRS
\* values differ, validate_fire_data sets crs_match = false and
\* fire_valid = false, while every component's own valid stays true.
C18_MismatchRejects ==
    (vpc = "returned" /\ AllGivenValid /\ Cardinality(DefinedCrsValues) > 1) =>
        /\ ~v_results.crs_match
        /\ ~v_results.fire_valid
        /\ \A c \in Components : \A r \in SubResult(c) : r.valid

\* three individually valid components, the perimeter under another CRS
C18_Witness ==
    /\ vpc = "returned"
    /\ \A c \in Components : fire_paths[c]
    /\ AllGivenValid
    /\ disk["dem"].crs = disk["dnbr"].crs
    /\ disk["perimeter"].crs # disk["dem"].crs

\* fire_valid is true exactly when every given component is valid and
\* crs_match is true
FireValidIff ==
    v_results.fire_valid <=> (AllGivenValid /\ v_results.crs_match)

\* a single-band DEM with CRS, nodata and at least one valid pixel
SoundDem(file) ==
    /\ file.kind = "raster"
    /\ file.readable
    /\ file.count = 1
    /\ file.crs # {}
    /\ file.nodata # {}
    /\ \E k \in DOMAIN file.data : {file.data[k]} # file.nodata

\* a valid single-polygon perimeter
SoundPerimeter(file) ==
    /\ file.kind = "vector"
    /\ file.features = <<[is_valid |-> TRUE, geom_type |-> "Polygon"]>>

\* a single-band dNBR with all values within [-2000, 2000]
SoundDnbr(file) ==
    /\ file.kind = "raster"
    /\ file.readable
    /\ file.count = 1
    /\ \A k \in DOMAIN file.data : file.data[k] >= -2000 /\ file.data[k] <= 2000

AllThreeValid ==
    /\ v_results.fire_valid
    /\ \A c \in Components : SubResult(c) # {} /\ \A r \in SubResult(c) : r.valid

\* C19 as stated: fire_valid is true exactly when every given component is
\* valid and crs_match is true; a sound DEM, a valid single-polygon perimeter
\* with the DEM's CRS and a single-band dNBR within [-2000, 2000] give
\* fire_valid = true with each sub-result valid.
C19_SoundFilesGiveFireValid ==
    vpc = "returned" =>
        /\ FireValidIff
        /\ ( /\ \A c \in Components : fire_paths[c]
             /\ SoundDem(disk["dem"])
             /\ SoundPerimeter(disk["perimeter"])
             /\ disk["perimeter"].crs = disk["dem"].crs
             /\ SoundDnbr(disk["dnbr"]) ) => AllThreeValid

\* C19 as amended: the same, for a dNBR that also has the DEM's CRS.
C19_SoundFilesOfOneCrsGiveFireValid ==
    vpc = "returned" =>
        /\ FireValidIff
        /\ ( /\ \A c \in Components : fire_paths[c]
             /\ SoundDem(disk["dem"])
             /\ SoundPerimeter(disk["perimeter"])
             /\ disk["perimeter"].crs = disk["dem"].crs
             /\ SoundDnbr(disk["dnbr"])
             /\ disk["dnbr"].crs = disk["dem"].crs ) => AllThreeValid

\* the three sound files under one CRS were validated
C19_Witness ==
    /\ vpc = "returned"
    /\ \A c \in Components : fire_paths[c]
    /\ SoundDem(disk["dem"])
    /\ SoundPerimeter(disk["perimeter"])
    /\ SoundDnbr(disk["dnbr"])
    /\ disk["perimeter"].crs = {"EPSG:4326"}
    /\ disk["dem"].crs = {"EPSG:4326"}
    /\ disk["dnbr"].crs = {"EPSG:4326"}
    /\ v_results.fire_valid

(***************************************************************************)
(* Claims about the data clipper, checked under SpecClip.                  *)
(***************************************************************************)
\* C20: when the perimeter and the shared dataset have different CRS, both
\* clip_raster and clip_vector reproject the perimeter to the dataset's CRS
\* and never the dataset; the clipped output is written in the dataset's
\* original CRS.
C20_PerimeterReprojectedNotDataset ==
    /\ "dataset" \notin reprojected
    /\ ( /\ cpc \in {"aligned", "returned"}
         /\ perimeter_file.kind = "spatial"
         /\ dataset_file.kind = "spatial"
         /\ perimeter_file.crs # {}
         /\ dataset_file.crs # {}
         /\ perimeter_file.crs # dataset_file.crs ) =>
            /\ reprojected = {"perimeter"}
            /\ perimeter_crs = dataset_file.crs
    /\ \A out \in clip_output : out.crs = dataset_file.crs

(***************************************************************************)
(* Claims about the hazard classification, checked under SpecHazard.       *)
(***************************************************************************)
\* the class the claim gives a cell: 1 to 4 by quarter, 0 for NaN
ClaimedClass(x) ==
    IF IsNan(x) THEN {0}
    ELSE {c \in 1..4 : \E p \in x : 25 * (c - 1) <= p /\ p < 25 * c}

\* C22: the written raster holds exactly one class per cell: 1 for a
\* probability in [0, 0.25), 2 for [0.25, 0.5), 3 for [0.5, 0.75), 4 for
\* [0.75, 1) and 0 for NaN, so 0.1 is class 1, 0.6 class 3, 0.9 class 4, and
\* 0.25, 0.5 and 0.75 go to the higher band.
C22_OneClassPerCell ==
    \A out \in hz_output :
        /\ DOMAIN out = DOMAIN hz_data
        /\ \A k \in DOMAIN out :
             /\ out[k] \in 0..4
             /\ \A c \in ClaimedClass(hz_data[k]) : out[k] = c
             /\ hz_data[k] = {10} => out[k] = 1
             /\ hz_data[k] = {60} => out[k] = 3
             /\ hz_data[k] = {90} => out[k] = 4
             /\ hz_data[k] = {25} => out[k] = 2
             /\ hz_data[k] = {50} => out[k] = 3
             /\ hz_data[k] = {75} => out[k] = 4

\* a raster with a cell on a band boundary and a NaN cell was classified and
\* written
C22_Witness ==
    /\ hz_pc = "returned"
    /\ \E out \in hz_output :
         /\ Len(out) = 2
         /\ hz_data[1] = {50} /\ out[1] = 3
         /\ hz_data[2] = NaN /\ out[2] = 0

\* C23: the top band is closed at 1: a cell whose probability is exactly 1.0
\* is written as class 4, not as no-data.
C23_OneIsVeryHigh ==
    \A out \in hz_output :
        \A k \in DOMAIN out : hz_data[k] = {100} => out[k] = 4

(***************************************************************************)
(* Claims about project initialisation, checked under SpecProject.         *)
(***************************************************************************)
\* what a line of the block assigns: its first piece when the second is "=",
\* "severity" for the comment that stands for the severity line
IsSeverityComment(line) == line = <<"#", "severity", "=", "None">>

IsAssignment(line) ==
    IsSeverityComment(line) \/ (Len(line) >= 2 /\ line[1] # "#" /\ line[2] = "=")

KeyOf(line) == IF IsSeverityComment(line) THEN "severity" ELSE line[1]

AssignedKeys(block) ==
    LET assignments == SelectSeq(block, IsAssignment) IN
    [k \in DOMAIN assignments |-> KeyOf(assignments[k])]

BlockKeys == <<"dem", "perimeter", "dnbr", "kf", "evt", "severity", "kf_field">>

\* config.py is the generated config with one block after line i, whose
\* assignments are the seven fire-specific ones, the paths being the fire's
SplicedAfter(gen, now, i, e) ==
    LET n == Len(now) - Len(gen)
        block == SubSeq(now, i + 1, i + n)
    IN
    /\ n > 0
    /\ \A j \in 1..i : now[j] = gen[j]
    /\ \A j \in (i + 1)..Len(gen) : now[j + n] = gen[j]
    /\ AssignedKeys(block) = BlockKeys
    /\ \E j \in DOMAIN block : block[j] = <<"dem", "=">> \o e.fire_data.dem
    /\ \E j \in DOMAIN block : block[j] = <<"perimeter", "=">> \o e.fire_data.perimeter
    /\ \E j \in DOMAIN block : block[j] = <<"dnbr", "=">> \o e.fire_data.dnbr

\* C21: after a successful initialize_single_project config.py is the generated
\* config with exactly one block of fire-specific assignments (dem, perimeter,
\* dnbr, kf, evt, severity or its comment, kf_field) directly after the first
\* line containing '# Inputs', every original line kept in order; when the
\* generated config has no marker line the call returns (None, false) and
\* config.py is left as the tool wrote it.
C21_BlockAfterFirstMarker ==
    \A k \in DOMAIN init_log :
        LET e == init_log[k] IN
        /\ e.returned.success =>
             \E gen \in e.generated, now \in e.config :
                \E i \in DOMAIN gen :
                   /\ HasMarker(gen[i])
                   /\ \A j \in 1..(i - 1) : ~HasMarker(gen[j])
                   /\ SplicedAfter(gen, now, i, e)
        /\ \A gen \in e.generated :
             (\A j \in DOMAIN gen : ~HasMarker(gen[j])) =>
                /\ e.returned = [project_dir |-> {}, success |-> FALSE]
                /\ e.config = {gen}

\* a config with a line before the first marker line and a second marker line
\* after it was patched
C21_Witness ==
    \E k \in DOMAIN init_log :
        /\ init_log[k].returned.success
        /\ \E gen \in init_log[k].generated :
             /\ Len(gen) = 3
             /\ ~HasMarker(gen[1])
             /\ HasMarker(gen[2])
             /\ HasMarker(gen[3])

\* C30: the year used to look the severity raster up is the fire's own year:
\* for process_single_fire(year, fire_name) it equals the year argument, as it
\* does for the inventory-keyed fires passed to initialize_all_projects.
C30_SeverityOfOwnYear ==
    \A k \in DOMAIN init_log :
        \A y \in init_log[k].year_used : y = init_log[k].year

(***************************************************************************)
(* Claims about batch_process, checked under SpecProcess.                  *)
(***************************************************************************)
\* the fires process_single_fire was called for: the pairs the loop has passed
ProcessedFires == {all_fires[k] : k \in 1..(p_idx - 1)}

\* C25: batch_process processes at most max_fires fires when max_fires is an
\* integer (0 processes none) and all fires found when it is None; the
\* returned mapping has exactly one entry per processed fire, keyed
\* {year}_{folder name}.
C25_AtMostMaxFires ==
    /\ \A m \in p_args.max_fires : p_idx - 1 <= m
    /\ ppc = "processed" =>
         /\ p_args.max_fires = {} => p_idx - 1 = Len(CollectFires(p_args.years))
         /\ DOMAIN p_returned = {ResultKey(f[1], f[2]) : f \in ProcessedFires}
         /\ Cardinality(DOMAIN p_returned) = p_idx - 1

\* C28: any two distinct fires of one batch_process call (different year or
\* different folder name) are initialized and assessed in different project
\* directories.
C28_OwnProjectDirectory ==
    /\ \A i, j \in DOMAIN init_log :
         (init_log[i].year # init_log[j].year
             \/ init_log[i].folder # init_log[j].folder)
            => init_log[i].dir # init_log[j].dir
    /\ \A i, j \in DOMAIN assess_log :
         (assess_log[i].year # assess_log[j].year
             \/ assess_log[i].folder # assess_log[j].folder)
            => assess_log[i].dir # assess_log[j].dir

(***************************************************************************)
(* Further claims about the batch assessment driver, under SpecBatch.      *)
(***************************************************************************)
SamplesOf(f) == {k \in DOMAIN mem_checks : mem_checks[k].fire = f}

\* C24: before each non-skipped fire of a batch the available memory is sampled
\* once, and a garbage collection is triggered exactly when the sample is below
\* the memory_threshold_gb given to run_batch_assessment.
C24_CollectBelowThreshold ==
    /\ \A f \in Fires :
         /\ Cardinality(SamplesOf(f)) <= 1
         /\ f \in skipped => SamplesOf(f) = {}
         /\ HasCall(f) => SamplesOf(f) # {}
    /\ \A k \in DOMAIN mem_checks :
         mem_checks[k].collected <=> mem_checks[k].available < memory_threshold_gb

\* the fire is passed over by the batch under way: no external-model call, no
\* entry in the results
PassedOver(f) == ~HasCall(f) /\ f \notin DOMAIN results /\ SamplesOf(f) = {}

\* C26 as claimed: a fire recorded with success = true has a .shp in its
\* exports/, so a following batch with skip_existing = true skips it and calls
\* the external model for it zero times.
C26_SuccessIsSkippedNext ==
    \A f \in DOMAIN recorded :
        /\ exports_shp[f]
        /\ skip_existing => PassedOver(f)

\* C26: a fire recorded with success = true and a non-empty output_files has
\* a .shp in its exports/, so a following batch with skip_existing = true
\* skips it and calls the external model for it zero times.
C26_SuccessWithFilesIsSkippedNext ==
    \A f \in DOMAIN recorded :
        recorded[f] =>
            /\ exports_shp[f]
            /\ skip_existing => PassedOver(f)

\* a second batch with skip_existing set has returned after skipping a fire the
\* first batch returned as a success with output files, while assessing another
C26_Witness ==
    /\ runs = 2
    /\ pc = "returned"
    /\ skip_existing
    /\ \E f \in DOMAIN recorded : recorded[f] /\ f \in skipped
    /\ calls # <<>>

(***************************************************************************)
(* Claim about repeated uploads, checked under SpecUpload.                 *)
(***************************************************************************)
TasksOfFire(n) == {k \in DOMAIN export_tasks : export_tasks[k].fire_name = n}

\* C27: for one fire, any sequence of upload_fire_perimeter calls starts at
\* most one export task for its asset identifier, also when a second call is
\* made before the first task has finished creating the asset.
C27_OneExportTaskPerFire ==
    \A n \in DOMAIN fire_inventory : Cardinality(TasksOfFire(n)) <= 1

(***************************************************************************)
(* Claim about repeated extraction, checked under SpecExtract.             *)
(***************************************************************************)
\* C29: extraction is repeatable: when extract_all_bundles has run a second
\* time over the same archives, the year folder holds the same set of fire
\* folders as after the first run, with no additional folder per archive.
C29_SecondRunAddsNoFolder ==
    (extract_runs = 2 /\ epc = "returned" /\ extract_log # <<>>)
        => DOMAIN year_dir = extract_log[1].before

====
